---- MODULE Spec2Model ----
(***************************************************************************)
(* A model of the vendored aiocometd client (Bayeux/CometD):               *)
(*   - transport negotiation            (Client._pick_connection_type)     *)
(*   - message exchange and correlation (TransportBase._consume_payload,   *)
(*     LongPollingTransport, WebSocketTransport)                           *)
(*   - the client facade and the connection state machine                  *)
(*     (Client.open/close, TransportBase.connect/_connect_done/...)        *)
(* Each part has its own specification over the shared variables.          *)
(***************************************************************************)
EXTENDS Integers, Sequences, FiniteSets, TLC

\* A key that is absent from a message / dict, and Python's None.
Nil == "nil"

(***************************************************************************)
(* Bounds of the model                                                     *)
(***************************************************************************)
\* longest list of connection types explored by the negotiation
MaxTypes == 2
\* number of caller tasks that send requests on one transport at the same time
MaxCallers == 2
\* number of requests finalized on one transport (the message id counter stops here)
MaxMessageId == 2
\* number of messages the server hands to one transport
MaxStamp == 3
\* longest payload the server sends
MaxPayloadLen == 2
\* largest max_pending_count explored
MaxPending == 1
\* requests counted per call of open() / close() (the count stops here)
MaxSent == 2

(***************************************************************************)
(* Constants of the program                                                *)
(***************************************************************************)
LONG_POLLING == "long-polling"
WEBSOCKET == "websocket"
\* the members of the enum ConnectionType
ConnectionType == {LONG_POLLING, WEBSOCKET}
DEFAULT_CONNECTION_TYPE == LONG_POLLING
\* asyncio.Semaphore(2) of the long-polling transport
HTTP_SEMAPHORE == 2
\* a type name a server may announce which the enum does not know
CALLBACK_POLLING == "callback-polling"
ServerTypeNames == ConnectionType \cup {CALLBACK_POLLING}

VARIABLES
    \* ---- negotiation ----
    connection_types,          \* Client._connection_types: the caller's preference list
    supportedConnectionTypes,  \* response["supportedConnectionTypes"] of the handshake
    picked,                    \* value returned by _pick_connection_type
    pick_pc                    \* position of the negotiation: "call" | "returned"

pickVars == <<connection_types, supportedConnectionTypes, picked, pick_pc>>

VARIABLES
    \* ---- one transport exchanging messages ----
    ttype,               \* connection_type of the transport
    client_id,           \* TransportBase._client_id
    message_id,          \* TransportBase._message_id
    subscriptions,       \* TransportBase._subscriptions
    reconnect_advice,    \* TransportBase._reconnect_advice (Nil: the empty dict)
    incoming_queue,      \* the asyncio.Queue shared by client and transport
    max_pending_count,   \* Client._max_pending_count, the queue's maxsize
    http_semaphore,      \* LongPollingTransport._http_semaphore (free slots)
    call,                \* the caller tasks: position, request, payload being consumed
    pending_exhanges,    \* WebSocketTransport._pending_exhanges: id -> awaiting caller
    rx,                  \* WebSocketTransport._receive_task and the payload it consumes
    \* ---- bookkeeping of the exchange (not program state) ----
    next_n,              \* stamp of the next message the server sends
    next_p,              \* number of the next payload the server sends
    emitted,             \* every message the server has sent to the transport
    done_payloads,       \* payloads whose consumption has finished
    correlated,          \* stamps of the messages handed back as correlated replies
    received,            \* what receive() has returned, in order
    last_message,        \* the message _update_subscriptions processed last
    subs_before          \* the subscriptions before that message was processed

xchgVars == <<ttype, client_id, message_id, subscriptions, reconnect_advice, incoming_queue,
              max_pending_count, http_semaphore, call, pending_exhanges, rx,
              next_n, next_p, emitted, done_payloads, correlated, received,
              last_message, subs_before>>

VARIABLES
    \* ---- the client facade and the connection state machine ----
    closed,              \* Client._closed
    transport,           \* Client._transport and the fields of that transport object
    negotiating,         \* the local variable transport of Client._negotiate_transport
    connect_task,        \* TransportBase._connect_task of Client._transport
    pc,                  \* where the caller of open() / close() is suspended
    \* ---- bookkeeping of the state machine (not program state) ----
    sent,                \* requests sent while the running open() / close() call ran
    ret,                 \* the call that returned in the last step and what it raised
    last_done,           \* what _connect_done did, if the last step was that callback
    first,               \* what the server did with the handshake and the first connect
    closes,              \* close() calls returned in a row
    abandoned            \* a transport was replaced while its connect task was alive

clientVars == <<closed, transport, negotiating, connect_task, pc,
                sent, ret, last_done, first, closes, abandoned>>

VARIABLES
    \* ---- one caller receiving messages from an open or closed client ----
    state_events,               \* TransportBase._state_events: the states whose event is set
    connection_timeout,         \* Client.connection_timeout (0: none)
    recv_pc,                    \* where the caller of receive() is
    get_task,                   \* _get_message: the result of the queue's get(), once done
    server_disconnected_task,   \* _get_message: wait_for_state(SERVER_DISCONNECTED) is done
    timeout_task,               \* _get_message: where _wait_connection_timeout is
    iteration                   \* the asynchronous iterator of the client

recvVars == <<state_events, connection_timeout, recv_pc, get_task,
              server_disconnected_task, timeout_task, iteration>>

VARIABLES
    \* ---- the long-polling requests of several callers and the semaphore ----
    requests,                   \* each caller of _send_final_payload: where it is
    sem_waiters                 \* the futures of the callers waiting in acquire()

semVars == <<requests, sem_waiters>>

VARIABLES
    \* ---- the socket of the websocket transport, its callers and its close ----
    ws_calls,                   \* each caller of _send_final_payload and its exchange future
    ws_socket,                  \* WebSocketFactory._socket (0: None)
    ws_closed_sockets,          \* the sockets whose closed flag is set
    ws_next,                    \* the next socket ws_connect opens
    receive_task,               \* WebSocketTransport._receive_task
    ws_sent,                    \* requests each caller has made
    ws_close_pc,                \* where WebSocketTransport.close is
    cancelled_is_exception,     \* asyncio.CancelledError derives from Exception
    outstanding                 \* the futures pending when close() was called, and their end

wsVars == <<ws_calls, ws_socket, ws_closed_sockets, ws_next, receive_task, ws_sent,
            ws_close_pc, cancelled_is_exception, outstanding>>

VARIABLES
    \* ---- the payloads of one transport (bookkeeping of the loop) ----
    finalized,                  \* the payload the last step has finalised
    responded                   \* the response the last step has consumed, if any

loopVars == <<finalized, responded>>

VARIABLES
    \* ---- the callers of _send_payload_with_auth and the extensions ----
    send_calls,                 \* each caller: where it is, its payload, its sends
    send_message_id,            \* TransportBase._message_id
    auth_extension,             \* TransportBase._auth is set
    extension_list,             \* TransportBase._extensions
    hooks                       \* the calls the last step has made, in their order

sendVars == <<send_calls, send_message_id, auth_extension, extension_list, hooks>>

VARIABLES
    \* ---- the transports and sessions of Client._negotiate_transport ----
    opens,                      \* calls of open() so far (bookkeeping)
    created,                    \* transports the running open() has created (bookkeeping)
    closed_sessions             \* the aiohttp sessions whose closed flag is set

negVars == <<opens, created, closed_sessions>>

lateVars == <<negVars>>

\* the variables of the specifications further down
otherVars == <<recvVars, semVars, wsVars, loopVars, sendVars, lateVars>>

vars == <<pickVars, xchgVars, clientVars, otherVars>>

(***************************************************************************)
(* Helpers on sequences                                                    *)
(***************************************************************************)
Range(s) == {s[i] : i \in 1..Len(s)}

SeqsUpTo(S, n) == UNION {[1..k -> S] : k \in 0..n}

\* list.index(x): the position of the first occurrence of x
Index(s, x) == CHOOSE i \in 1..Len(s) : s[i] = x /\ \A j \in 1..(i - 1) : s[j] /= x

(***************************************************************************)
(* Messages and channels                                                   *)
(* A message is a Python dict: a record whose domain is the set of keys it *)
(* carries; a key whose value is None holds Nil.  A channel name "/a/b" is *)
(* the sequence of its segments <<"a", "b">>, so that                      *)
(* channel.startswith("/meta/") can be computed.  The keys n and p are the *)
(* stamps of the server's messages: n numbers the messages in the order of *)
(* arrival, p numbers the payloads.                                        *)
(***************************************************************************)
META_CHANNEL_PREFIX == "meta"
SERVICE_CHANNEL_PREFIX == "service"
HANDSHAKE == <<META_CHANNEL_PREFIX, "handshake">>
CONNECT == <<META_CHANNEL_PREFIX, "connect">>
DISCONNECT == <<META_CHANNEL_PREFIX, "disconnect">>
SUBSCRIBE == <<META_CHANNEL_PREFIX, "subscribe">>
UNSUBSCRIBE == <<META_CHANNEL_PREFIX, "unsubscribe">>
\* channels of the callers: "/foo", "/bar" and "/service/s"
FOO == <<"foo">>
BAR == <<"bar">>
SVC == <<SERVICE_CHANNEL_PREFIX, "s">>

\* key in message
Has(message, key) == key \in DOMAIN message
\* message.get(key)
Get(message, key) == IF key \in DOMAIN message THEN message[key] ELSE Nil

\* str.startswith(prefix) for the prefixes "/meta/" and "/service/"
StartsWith(channel, prefix) == Len(channel) >= 2 /\ channel[1] = prefix

SUBSCRIBE_MESSAGE ==
    [channel |-> SUBSCRIBE, clientId |-> Nil, subscription |-> Nil, id |-> Nil]
UNSUBSCRIBE_MESSAGE ==
    [channel |-> UNSUBSCRIBE, clientId |-> Nil, subscription |-> Nil, id |-> Nil]
PUBLISH_MESSAGE ==
    [channel |-> Nil, clientId |-> Nil, data |-> Nil, id |-> Nil]

\* TransportBase._finalize_message: the fields of an outgoing message
\* (the caller advances _message_id when the message has an id key)
_finalize_message(message, counter, cid, conn_type) ==
    [k \in DOMAIN message |->
        IF k = "id" THEN ToString(counter)
        ELSE IF k = "clientId" THEN cid
        ELSE IF k = "connectionType" THEN conn_type
        ELSE message[k]]

\* the slip of comparing the channels only
MatchingChannelOnly(response_message, find_response_for) ==
    /\ find_response_for /= <<>>
    /\ find_response_for[1].channel = response_message.channel
    /\ Has(response_message, "successful")

\* utils.is_matching_response; find_response_for is <<>> for None, else <<message>>
is_matching_response(response_message, find_response_for) ==
    /\ find_response_for /= <<>>
    /\ find_response_for[1].channel = response_message.channel
    /\ Get(find_response_for[1], "id") = Get(response_message, "id")
    /\ Has(response_message, "successful")

\* the slip of leaving the meta channels in
EventAlsoOnMeta(response_message) ==
    /\ (~StartsWith(response_message.channel, SERVICE_CHANNEL_PREFIX)
            \/ ~Has(response_message, "id"))
    /\ Has(response_message, "data")

\* utils.is_event_message
is_event_message(response_message) ==
    /\ ~StartsWith(response_message.channel, META_CHANNEL_PREFIX)
    /\ (~StartsWith(response_message.channel, SERVICE_CHANNEL_PREFIX)
            \/ ~Has(response_message, "id"))
    /\ Has(response_message, "data")

\* the slip of removing the channel on every unsubscribe response, failed or not
UpdateSubscriptionsIgnoringSuccess(subs, response_message) ==
    IF response_message.channel = SUBSCRIBE
    THEN IF response_message.successful
         THEN subs \cup {response_message.subscription}
         ELSE IF Has(response_message, "subscription")
              THEN subs \ {response_message.subscription}
              ELSE subs
    ELSE IF response_message.channel = UNSUBSCRIBE
                /\ Has(response_message, "subscription")
         THEN subs \ {response_message.subscription}
         ELSE subs

\* the slip of keeping a channel whose subscription the server has refused
FailedSubscribeKeeps(subs, response_message) ==
    IF response_message.channel = SUBSCRIBE
    THEN IF response_message.successful
         THEN subs \cup {response_message.subscription}
         ELSE subs
    ELSE IF response_message.channel = UNSUBSCRIBE /\ response_message.successful
         THEN subs \ {response_message.subscription}
         ELSE subs

\* TransportBase._update_subscriptions: the set after the message
_update_subscriptions(subs, response_message) ==
    IF response_message.channel = SUBSCRIBE
    THEN IF response_message.successful
                /\ response_message.subscription \notin subs
         THEN subs \cup {response_message.subscription}
         ELSE IF ~response_message.successful
                    /\ Has(response_message, "subscription")
                    /\ response_message.subscription \in subs
              THEN subs \ {response_message.subscription}
              ELSE subs
    ELSE IF response_message.channel = UNSUBSCRIBE
         THEN IF response_message.successful
                    /\ response_message.subscription \in subs
              THEN subs \ {response_message.subscription}
              ELSE subs
         ELSE subs

\* a queue that takes no notice of its maxsize
NeverFull(queue, maxsize) == FALSE

\* asyncio.Queue.full() of Queue(maxsize=max_pending_count): a maxsize <= 0 is no limit
QueueFull(queue, maxsize) == maxsize > 0 /\ Len(queue) >= maxsize

\* the slip of putting the newest message at the head of the queue
PutFirst(queue, response_message) == <<response_message>> \o queue

\* incoming_queue.put(response_message) of TransportBase._consume_message, once there is room
QueuePut(queue, response_message) == Append(queue, response_message)

(***************************************************************************)
(* TransportBase._consume_payload, run from message i of the payload until *)
(* the payload ends or incoming_queue.put() finds the queue full (the only *)
(* point where the coroutine suspends).  st holds the transport's state    *)
(* and the loop's result; at_put says that message i was already examined *)
(* and only its put is left.                                               *)
(***************************************************************************)
RECURSIVE _consume_payload(_, _, _, _, _)
_consume_payload(payload, i, at_put, find_response_for, st) ==
    IF i > Len(payload)
    THEN [st EXCEPT !.idx = i, !.blocked = FALSE]
    ELSE LET message == payload[i]
             st1 == IF at_put THEN st
                    ELSE [st EXCEPT
                            !.advice = IF Has(message, "advice")
                                       THEN <<message.advice>> ELSE @,
                            !.subs = _update_subscriptions(@, message),
                            !.last = <<message>>]
         IN  IF ~at_put /\ st1.result = <<>>
                    /\ is_matching_response(message, find_response_for)
             THEN _consume_payload(payload, i + 1, FALSE, find_response_for,
                                   [st1 EXCEPT !.result = <<message>>])
             ELSE IF is_event_message(message)
                  THEN IF QueueFull(st1.queue, st1.maxsize)
                       THEN [st1 EXCEPT !.idx = i, !.blocked = TRUE]
                       ELSE _consume_payload(payload, i + 1, FALSE, find_response_for,
                                [st1 EXCEPT !.queue = QueuePut(@, message)])
                  ELSE _consume_payload(payload, i + 1, FALSE, find_response_for, st1)

\* the slip of completing the oldest pending exchange, whatever id the message has
RECURSIVE SetExchangeResultsInOrder(_, _, _, _)
SetExchangeResultsInOrder(response_payload, i, pend, calls) ==
    IF i > Len(response_payload) THEN [pend |-> pend, calls |-> calls]
    ELSE LET response_message == response_payload[i] IN
         IF Has(response_message, "id") /\ DOMAIN pend /= {}
         THEN LET oldest == CHOOSE k \in DOMAIN pend :
                                \A j \in DOMAIN pend : pend[k] <= pend[j]
                  exchange == pend[oldest]
              IN  SetExchangeResultsInOrder(response_payload, i + 1,
                      [k \in DOMAIN pend \ {oldest} |-> pend[k]],
                      IF calls[exchange].future = "pending"
                      THEN [calls EXCEPT ![exchange].future = "result",
                                         ![exchange].outcome = <<response_message>>]
                      ELSE calls)
         ELSE SetExchangeResultsInOrder(response_payload, i + 1, pend, calls)

\* WebSocketTransport._set_exchange_results, from message i of the payload:
\* pend is _pending_exhanges (id -> caller), calls holds each caller's future
RECURSIVE _set_exchange_results(_, _, _, _)
_set_exchange_results(response_payload, i, pend, calls) ==
    IF i > Len(response_payload) THEN [pend |-> pend, calls |-> calls]
    ELSE LET response_message == response_payload[i] IN
         IF Has(response_message, "id") /\ response_message.id \in DOMAIN pend
         THEN LET exchange == pend[response_message.id]
              IN  _set_exchange_results(response_payload, i + 1,
                      [k \in DOMAIN pend \ {response_message.id} |-> pend[k]],
                      IF calls[exchange].future = "pending"
                      THEN [calls EXCEPT ![exchange].future = "result",
                                         ![exchange].outcome = <<response_message>>]
                      ELSE calls)
         ELSE _set_exchange_results(response_payload, i + 1, pend, calls)

(***************************************************************************)
(* Transport negotiation                                                   *)
(***************************************************************************)
\* ConnectionType(type_string) under suppress(ValueError): unknown names are skipped
KnownTypes(type_strings) == SelectSeq(type_strings, LAMBDA t : t \in ConnectionType)

\* the plausible slip: the server's order decides instead of the caller's
PickByServerOrder(server_types, prefs) ==
    LET known == KnownTypes(server_types)
        intersection == Range(known) \cap Range(prefs)
    IN  IF intersection = {} THEN Nil
        ELSE CHOOSE t \in intersection :
                \A u \in intersection : Index(known, t) <= Index(known, u)

\* the slip: an empty intersection falls back to the provisional transport's type
PickWithFallback(server_types, prefs) ==
    LET intersection == Range(KnownTypes(server_types)) \cap Range(prefs)
    IN  IF intersection = {} THEN DEFAULT_CONNECTION_TYPE
        ELSE CHOOSE t \in intersection :
                \A u \in intersection : Index(prefs, t) <= Index(prefs, u)

\* Client._pick_connection_type
_pick_connection_type(server_types, prefs) ==
    LET server_connection_types == KnownTypes(server_types)
        intersection == Range(server_connection_types) \cap Range(prefs)
    IN  IF intersection = {} THEN Nil
        ELSE CHOOSE t \in intersection :
                \A u \in intersection : Index(prefs, t) <= Index(prefs, u)

(***************************************************************************)
(* The connection state machine: values and pure steps                     *)
(* Message ids, subscriptions and the stored advice play no part here      *)
(* (they belong to the exchange); a response is reduced to what the state  *)
(* machine reads from it: successful, advice["reconnect"] and clientId.    *)
(***************************************************************************)
\* the members of the enum TransportState
DISCONNECTED == "DISCONNECTED"
SERVER_DISCONNECTED == "SERVER_DISCONNECTED"
CONNECTING == "CONNECTING"
CONNECTED == "CONNECTED"
DISCONNECTING == "DISCONNECTING"
TransportState ==
    {DISCONNECTED, SERVER_DISCONNECTED, CONNECTING, CONNECTED, DISCONNECTING}

\* advice["reconnect"] of a response; Nil: the response carries no advice
Advices == {Nil, "retry", "handshake", "none", "other"}

\* a response message: successful, advice["reconnect"], clientId
Response(ok, advice, cid) ==
    [kind |-> "response", successful |-> ok, reconnect |-> advice, clientId |-> cid]

\* an exception raised instead of a response
Raised(name) ==
    [kind |-> name, successful |-> FALSE, reconnect |-> Nil, clientId |-> Nil]

NoResult == Raised("none")

\* what a request ends with on a transport of the given type: a response, a
\* TransportError (aiohttp ClientError, or no reply in the payload) or, on the
\* websocket, the asyncio.TimeoutError that _send_final_payload re-raises
Outcomes(conn_type, cids) ==
    {Response(ok, advice, cid) : ok \in BOOLEAN, advice \in Advices, cid \in cids}
    \cup {Raised("TransportError")}
    \cup (IF conn_type = WEBSOCKET THEN {Raised("TimeoutError")} ELSE {})

\* what the disconnect request ends with: disconnect() reads nothing from a response
DisconnectOutcomes(conn_type) ==
    {o \in Outcomes(conn_type, {Nil}) : o.kind = "response" => o.reconnect = Nil}

\* Client._transport = None
NoTransport ==
    [connection_type |-> Nil, client_id |-> Nil, state |-> DISCONNECTED,
     subscribe_on_connect |-> FALSE, http_session |-> Nil]

\* create_transport(...) and TransportBase.__init__
create_transport(conn_type, cid, session) ==
    [connection_type |-> conn_type, client_id |-> cid, state |-> DISCONNECTED,
     subscribe_on_connect |-> FALSE, http_session |-> session]

\* TransportBase._connect_task: None
NoTask == [kind |-> "none", status |-> "none", result |-> NoResult]

\* _start_connect_task: a task of the given kind waits to run
Scheduled(kind) == [kind |-> kind, status |-> "scheduled", result |-> NoResult]

\* a task that has neither finished nor been cancelled, or whose callback is due
Live(task) == task.status \in {"scheduled", "sent", "done"}

\* _get_http_session: the session is created on first use
SessionFor(t) == IF t.http_session = Nil THEN "open" ELSE t.http_session

\* _close_http_session
SessionClosed(t) ==
    [t EXCEPT !.http_session = IF @ = "open" THEN "closed" ELSE @]

\* TransportBase.handshake after its response
handshake(t, response) ==
    IF response.successful
    THEN [t EXCEPT !.client_id = response.clientId, !.subscribe_on_connect = TRUE]
    ELSE t

\* the slip: the response of a connect leaves the resubscribe flag alone
KeepFlag(t, response) == t

\* TransportBase._connect after its response
_connect(t, response) ==
    [t EXCEPT !.subscribe_on_connect = ~response.successful]

\* a server that is never seen to reject
NeverServerError(response_message) == FALSE

\* utils.is_server_error_message
is_server_error_message(response_message) == ~response_message.successful

\* the slip: the advice of the response is never looked at
AlwaysRetry(result) == "retry"

\* _connect_done, lines 536-549: the advice the callback follows
ReconnectAdviceOf(result) ==
    IF /\ result.kind = "response"
       /\ ~result.successful
       /\ result.reconnect /= Nil
    THEN result.reconnect
    ELSE "retry"

\* the slip: a retry advice stops the loop
FollowAdviceWithoutRetry(advice, st) ==
    IF advice = "handshake"
    THEN [state |-> st, started |-> "handshake"]
    ELSE [state |-> SERVER_DISCONNECTED, started |-> "none"]

\* the slip: a handshake advice is answered with a connect
HandshakeAdviceConnects(advice, st) ==
    IF advice \in {"handshake", "retry"}
    THEN [state |-> st, started |-> "connect"]
    ELSE [state |-> SERVER_DISCONNECTED, started |-> "none"]

\* TransportBase._follow_advice: the state it leaves and the task it starts
_follow_advice(advice, st) ==
    IF advice = "handshake"
    THEN [state |-> st, started |-> "handshake"]
    ELSE IF advice = "retry"
         THEN [state |-> st, started |-> "connect"]
         ELSE [state |-> SERVER_DISCONNECTED, started |-> "none"]

\* TransportBase._connect_done for a task that ended with a response or an
\* exception: the state it leaves and the task it starts
_connect_done(st, result) ==
    LET advice == ReconnectAdviceOf(result)
        st1 == IF result.kind = "response" THEN CONNECTED
               ELSE IF st /= DISCONNECTING THEN CONNECTING
               ELSE st
    IN  IF st1 /= DISCONNECTING
        THEN _follow_advice(advice, st1)
        ELSE [state |-> st1, started |-> "none"]

NoSent == [handshake |-> 0, connect |-> 0, disconnect |-> 0, request |-> 0]
NoRet == [op |-> "none", raised |-> "none"]
NoDone == [kind |-> "none", result |-> NoResult, before |-> DISCONNECTED,
           after |-> DISCONNECTED, started |-> "none"]
NoFirst == [handshake |-> "none", connect |-> "none"]

\* no caller of receive() and no transport with events
RecvIdle ==
    /\ state_events = {}
    /\ connection_timeout = 0
    /\ recv_pc = "idle"
    /\ get_task = <<>>
    /\ server_disconnected_task = FALSE
    /\ timeout_task = "none"
    /\ iteration = "none"

\* nobody uses the semaphore
SemIdle ==
    /\ requests = <<>>
    /\ sem_waiters = <<>>

\* no websocket
WsIdle ==
    /\ ws_calls = <<>>
    /\ ws_socket = 0
    /\ ws_closed_sockets = {}
    /\ ws_next = 1
    /\ receive_task = [status |-> "none", socket |-> 0, result |-> "none"]
    /\ ws_sent = <<>>
    /\ ws_close_pc = "idle"
    /\ cancelled_is_exception = FALSE
    /\ outstanding = <<>>

\* no payload has been finalised
LoopIdle ==
    /\ finalized = <<>>
    /\ responded = <<>>

\* nothing is being sent through the extensions
SendIdle ==
    /\ send_calls = <<>>
    /\ send_message_id = 0
    /\ auth_extension = FALSE
    /\ extension_list = <<>>
    /\ hooks = <<>>

\* the specifications further down are not running
NegIdle ==
    /\ opens = 0
    /\ created = 0
    /\ closed_sessions = {}

LateIdle == NegIdle

OtherIdle == RecvIdle /\ SemIdle /\ WsIdle /\ LoopIdle /\ SendIdle /\ LateIdle

\* one more request of the given kind, counted up to MaxSent
Count(s, kind) == [s EXCEPT ![kind] = IF @ < MaxSent THEN @ + 1 ELSE @]

\* the count of a call that returned a step ago is dropped
Kept(s) == IF pc = "idle" THEN NoSent ELSE s

\* Client.__init__ of a client that this specification does not run
ClientIdle ==
    /\ closed = TRUE
    /\ transport = NoTransport
    /\ negotiating = NoTransport
    /\ connect_task = NoTask
    /\ pc = "idle"
    /\ sent = NoSent
    /\ ret = NoRet
    /\ last_done = NoDone
    /\ first = NoFirst
    /\ closes = 0
    /\ abandoned = FALSE

(***************************************************************************)
(* The caller tasks and the server of the exchange                         *)
(***************************************************************************)
Callers == 1..MaxCallers

\* a caller task between two requests
IdleCall ==
    [pc |-> "idle", message |-> <<>>, payload |-> <<>>, idx |-> 0, blocked |-> FALSE,
     result |-> <<>>, future |-> Nil, outcome |-> <<>>, error |-> Nil]

\* the receive task before it is started
IdleRx == [running |-> FALSE, payload |-> <<>>, idx |-> 0, blocked |-> FALSE]

\* what a caller may ask of the transport: subscribe(), unsubscribe(), publish()
Requests ==
    {[SUBSCRIBE_MESSAGE EXCEPT !.subscription = FOO],
     [UNSUBSCRIBE_MESSAGE EXCEPT !.subscription = FOO],
     [PUBLISH_MESSAGE EXCEPT !.channel = FOO, !.data = "x"]}

\* the caller tasks are alike: the one with the lowest number that is free sends next
FirstFree(r) == \A q \in Callers : q < r => call[q].pc /= "idle"

\* the callers whose request is with the server
Outstanding ==
    {r \in Callers : call[r].pc = "posted"
                        \/ (call[r].pc = "awaiting" /\ call[r].future = "pending")}

\* what the server may put into a payload: the reply to an outstanding request,
\* successful or not, an event published on "/foo", or a message of the service
\* channel "/service/s" that carries data and an id of the server's
Kinds ==
    {[kind |-> "reply", to |-> r, ok |-> b] : r \in Outstanding, b \in BOOLEAN}
        \cup {[kind |-> "event", to |-> 0, ok |-> TRUE],
              [kind |-> "service", to |-> 0, ok |-> TRUE]}

Shapes == UNION {[1..k -> Kinds] : k \in 1..MaxPayloadLen}

\* the server's reply to a request: same channel and id, and the subscription if any
Reply(request, ok, n, p) ==
    IF Has(request, "subscription")
    THEN [channel |-> request.channel, id |-> request.id, successful |-> ok,
          subscription |-> request.subscription, n |-> n, p |-> p]
    ELSE [channel |-> request.channel, id |-> request.id, successful |-> ok,
          n |-> n, p |-> p]

\* an event the server delivers on channel
Event(channel, n, p) == [channel |-> channel, data |-> ToString(n), n |-> n, p |-> p]

\* a message of a service channel with an id: the answer of a service, not an event
Service(channel, n, p) ==
    [channel |-> channel, data |-> ToString(n), id |-> "s", n |-> n, p |-> p]

\* the payload of a shape, stamped from n0
Stamp(shape, n0, p) ==
    [i \in 1..Len(shape) |->
        IF shape[i].kind = "reply"
        THEN Reply(call[shape[i].to].message[1], shape[i].ok, n0 + i - 1, p)
        ELSE IF shape[i].kind = "event"
             THEN Event(FOO, n0 + i - 1, p)
             ELSE Service(SVC, n0 + i - 1, p)]

\* the state _consume_payload works on
ConsumeState(result) ==
    [subs |-> subscriptions, advice |-> reconnect_advice, queue |-> incoming_queue,
     maxsize |-> max_pending_count, last |-> last_message,
     result |-> result, idx |-> 1, blocked |-> FALSE]

XchgInit ==
    /\ ttype \in ConnectionType
    /\ client_id = "c1"
    /\ message_id = 0
    /\ subscriptions = {}
    /\ reconnect_advice = <<>>
    /\ incoming_queue = <<>>
    /\ max_pending_count \in 0..MaxPending
    /\ http_semaphore = HTTP_SEMAPHORE
    /\ call = [r \in Callers |-> IdleCall]
    /\ pending_exhanges = <<>>
    /\ rx = IdleRx
    /\ next_n = 1
    /\ next_p = 1
    /\ emitted = {}
    /\ done_payloads = {}
    /\ correlated = {}
    /\ received = <<>>
    /\ last_message = <<>>
    /\ subs_before = {}

\* the exchange part of a state in which no transport exchanges messages
XchgIdle ==
    /\ ttype = Nil
    /\ client_id = Nil
    /\ message_id = 0
    /\ subscriptions = {}
    /\ reconnect_advice = <<>>
    /\ incoming_queue = <<>>
    /\ max_pending_count = 0
    /\ http_semaphore = HTTP_SEMAPHORE
    /\ call = <<>>
    /\ pending_exhanges = <<>>
    /\ rx = IdleRx
    /\ next_n = 1
    /\ next_p = 1
    /\ emitted = {}
    /\ done_payloads = {}
    /\ correlated = {}
    /\ received = <<>>
    /\ last_message = <<>>
    /\ subs_before = {}

\* the server's bookkeeping when it sends payload
Emit(payload) ==
    /\ next_n' = next_n + Len(payload)
    /\ next_p' = next_p + 1
    /\ emitted' = emitted \cup Range(payload)

\* what _consume_payload leaves in the transport
Consumed(st) ==
    /\ subscriptions' = st.subs
    /\ reconnect_advice' = st.advice
    /\ incoming_queue' = st.queue
    /\ last_message' = st.last

\* the slip: a payload whose put() found the queue full is taken as consumed
PutAbandoned(st) == FALSE

\* "await self.incoming_queue.put(response_message)" has not returned:
\* _consume_payload is suspended in the middle of the payload
PutPending(st) == st.blocked

(***************************************************************************)
(* Long-polling: LongPollingTransport._send_final_payload                  *)
(***************************************************************************)
\* _send_payload up to session.post(): the message is finalized, a slot of the
\* semaphore is taken and the request is on its way
LpSend(r, message) ==
    /\ ttype = LONG_POLLING
    /\ call[r].pc = "idle"
    /\ FirstFree(r)
    /\ message_id < MaxMessageId
    /\ http_semaphore > 0
    /\ message_id' = message_id + 1
    /\ http_semaphore' = http_semaphore - 1
    /\ call' = [call EXCEPT ![r] = [IdleCall EXCEPT
                    !.pc = "posted",
                    !.message = <<_finalize_message(message, message_id, client_id, ttype)>>]]
    /\ UNCHANGED <<ttype, client_id, subscriptions, reconnect_advice, incoming_queue,
                   max_pending_count, pending_exhanges, rx, next_n, next_p, emitted,
                   done_payloads, correlated, received, last_message, subs_before>>
    /\ UNCHANGED <<pickVars, clientVars, otherVars>>

\* the HTTP response arrives: the slot is released, the body is still to be read
LpRespond(r, shape) ==
    /\ ttype = LONG_POLLING
    /\ call[r].pc = "posted"
    /\ next_n + Len(shape) - 1 <= MaxStamp
    /\ LET payload == Stamp(shape, next_n, next_p) IN
        /\ Emit(payload)
        /\ call' = [call EXCEPT ![r].pc = "consume", ![r].payload = payload,
                                ![r].idx = 1]
    /\ http_semaphore' = http_semaphore + 1
    /\ UNCHANGED <<ttype, client_id, message_id, subscriptions, reconnect_advice,
                   incoming_queue, max_pending_count, pending_exhanges, rx,
                   done_payloads, correlated, received, last_message, subs_before>>
    /\ UNCHANGED <<pickVars, clientVars, otherVars>>

\* aiohttp's ClientError: the request fails with TransportError
LpNetworkError(r) ==
    /\ ttype = LONG_POLLING
    /\ call[r].pc = "posted"
    /\ http_semaphore' = http_semaphore + 1
    /\ call' = [call EXCEPT ![r].pc = "raised", ![r].error = "TransportError"]
    /\ UNCHANGED <<ttype, client_id, message_id, subscriptions, reconnect_advice,
                   incoming_queue, max_pending_count, pending_exhanges, rx, next_n,
                   next_p, emitted, done_payloads, correlated, received, last_message,
                   subs_before>>
    /\ UNCHANGED <<pickVars, clientVars, otherVars>>

\* _consume_payload(response_payload, find_response_for=payload[0]) until it ends or
\* suspends in put(); at the end the matching response is returned, or
\* TransportError raised when there is none
LpConsume(r) ==
    /\ ttype = LONG_POLLING
    /\ call[r].pc = "consume"
    /\ call[r].blocked => ~QueueFull(incoming_queue, max_pending_count)
    /\ LET st == _consume_payload(call[r].payload, call[r].idx, call[r].blocked,
                                  call[r].message, ConsumeState(call[r].result))
       IN  /\ Consumed(st)
           /\ IF PutPending(st)
              THEN /\ call' = [call EXCEPT ![r].idx = st.idx, ![r].blocked = TRUE,
                                           ![r].result = st.result]
                   /\ UNCHANGED <<done_payloads, correlated>>
              ELSE /\ done_payloads' = done_payloads \cup {call[r].payload[1].p}
                   /\ IF st.result = <<>>
                      THEN /\ call' = [call EXCEPT ![r].pc = "raised",
                                            ![r].error = "TransportError",
                                            ![r].idx = st.idx, ![r].blocked = FALSE]
                           /\ UNCHANGED correlated
                      ELSE /\ call' = [call EXCEPT ![r].pc = "returned",
                                            ![r].outcome = st.result,
                                            ![r].result = st.result,
                                            ![r].idx = st.idx, ![r].blocked = FALSE]
                           /\ correlated' = correlated \cup {st.result[1].n}
    /\ UNCHANGED <<ttype, client_id, message_id, max_pending_count, http_semaphore,
                   pending_exhanges, rx, next_n, next_p, emitted, received, subs_before>>
    /\ UNCHANGED <<pickVars, clientVars, otherVars>>

(***************************************************************************)
(* WebSocket: WebSocketTransport._send_final_payload and _receive          *)
(***************************************************************************)
\* _send_payload up to "await future": the message is finalized, the exchange
\* future is stored under the message's id, the payload is written to the
\* socket and the receive task is started if it is not running
WsSend(r, message) ==
    /\ ttype = WEBSOCKET
    /\ call[r].pc = "idle"
    /\ FirstFree(r)
    /\ message_id < MaxMessageId
    /\ message_id' = message_id + 1
    /\ LET final == _finalize_message(message, message_id, client_id, ttype) IN
        /\ call' = [call EXCEPT ![r] = [IdleCall EXCEPT
                        !.pc = "awaiting", !.message = <<final>>,
                        !.future = "pending"]]
        /\ pending_exhanges' = (final.id :> r) @@ pending_exhanges
    /\ rx' = [rx EXCEPT !.running = TRUE]
    /\ UNCHANGED <<ttype, client_id, subscriptions, reconnect_advice, incoming_queue,
                   max_pending_count, http_semaphore, next_n, next_p, emitted,
                   done_payloads, correlated, received, last_message, subs_before>>
    /\ UNCHANGED <<pickVars, clientVars, otherVars>>

\* the end of one round of _receive: the results of the exchanges are set
WsRoundDone(payload, st) ==
    LET res == _set_exchange_results(payload, 1, pending_exhanges, call) IN
        /\ pending_exhanges' = res.pend
        /\ call' = res.calls
        /\ correlated' = correlated \cup
               {res.calls[r].outcome[1].n : r \in {c \in Callers :
                    call[c].future = "pending" /\ res.calls[c].future = "result"}}
        /\ done_payloads' = done_payloads \cup {payload[1].p}
        /\ rx' = [rx EXCEPT !.payload = <<>>, !.idx = 0, !.blocked = FALSE]

\* _receive gets a payload from the socket and consumes it
WsReceive(shape) ==
    /\ ttype = WEBSOCKET
    /\ rx.running
    /\ rx.payload = <<>>
    /\ next_n + Len(shape) - 1 <= MaxStamp
    /\ LET payload == Stamp(shape, next_n, next_p)
           st == _consume_payload(payload, 1, FALSE, <<>>, ConsumeState(<<>>))
       IN  /\ Emit(payload)
           /\ Consumed(st)
           /\ IF PutPending(st)
              THEN /\ rx' = [rx EXCEPT !.payload = payload, !.idx = st.idx,
                                       !.blocked = TRUE]
                   /\ UNCHANGED <<call, pending_exhanges, correlated, done_payloads>>
              ELSE WsRoundDone(payload, st)
    /\ UNCHANGED <<ttype, client_id, message_id, max_pending_count, http_semaphore,
                   received, subs_before>>
    /\ UNCHANGED <<pickVars, clientVars, otherVars>>

\* _receive resumes in put() once the queue has room
WsResume ==
    /\ ttype = WEBSOCKET
    /\ rx.blocked
    /\ ~QueueFull(incoming_queue, max_pending_count)
    /\ LET st == _consume_payload(rx.payload, rx.idx, TRUE, <<>>, ConsumeState(<<>>))
       IN  /\ Consumed(st)
           /\ IF PutPending(st)
              THEN /\ rx' = [rx EXCEPT !.idx = st.idx]
                   /\ UNCHANGED <<call, pending_exhanges, correlated, done_payloads>>
              ELSE WsRoundDone(rx.payload, st)
    /\ UNCHANGED <<ttype, client_id, message_id, max_pending_count, http_semaphore,
                   next_n, next_p, emitted, received, subs_before>>
    /\ UNCHANGED <<pickVars, clientVars, otherVars>>

\* "await future" returns the result the receive task has set
WsReturn(r) ==
    /\ ttype = WEBSOCKET
    /\ call[r].pc = "awaiting"
    /\ call[r].future = "result"
    /\ call' = [call EXCEPT ![r].pc = "returned"]
    /\ UNCHANGED <<ttype, client_id, message_id, subscriptions, reconnect_advice,
                   incoming_queue, max_pending_count, http_semaphore, pending_exhanges,
                   rx, next_n, next_p, emitted, done_payloads, correlated, received,
                   last_message, subs_before>>
    /\ UNCHANGED <<pickVars, clientVars, otherVars>>

(***************************************************************************)
(* Both transports                                                         *)
(***************************************************************************)
\* the caller has its response or its error and is free for the next request
Finish(r) ==
    /\ call[r].pc \in {"returned", "raised"}
    /\ call' = [call EXCEPT ![r] = IdleCall]
    /\ UNCHANGED <<ttype, client_id, message_id, subscriptions, reconnect_advice,
                   incoming_queue, max_pending_count, http_semaphore, pending_exhanges,
                   rx, next_n, next_p, emitted, done_payloads, correlated, received,
                   last_message, subs_before>>
    /\ UNCHANGED <<pickVars, clientVars, otherVars>>

\* Client.receive(): incoming_queue.get() hands out the head of the queue
Receive ==
    /\ incoming_queue /= <<>>
    /\ received' = Append(received, Head(incoming_queue))
    /\ incoming_queue' = Tail(incoming_queue)
    /\ UNCHANGED <<ttype, client_id, message_id, subscriptions, reconnect_advice,
                   max_pending_count, http_semaphore, call, pending_exhanges, rx,
                   next_n, next_p, emitted, done_payloads, correlated, last_message,
                   subs_before>>
    /\ UNCHANGED <<pickVars, clientVars, otherVars>>

PickIdle ==
    /\ connection_types = <<>>
    /\ supportedConnectionTypes = <<>>
    /\ picked = Nil
    /\ pick_pc = Nil

XchgNext ==
    \/ \E r \in Callers, message \in Requests : LpSend(r, message)
    \/ \E r \in Callers, shape \in Shapes : LpRespond(r, shape)
    \/ \E r \in Callers : LpNetworkError(r)
    \/ \E r \in Callers : LpConsume(r)
    \/ \E r \in Callers, message \in Requests : WsSend(r, message)
    \/ \E shape \in Shapes : WsReceive(shape)
    \/ WsResume
    \/ \E r \in Callers : WsReturn(r)
    \/ \E r \in Callers : Finish(r)
    \/ Receive

InitXchg == PickIdle /\ XchgInit /\ ClientIdle /\ OtherIdle

SpecXchg == InitXchg /\ [][XchgNext]_vars

(***************************************************************************)
(* The subscription set under any sequence of response messages: one step  *)
(* is one round of the loop of _consume_payload on a response message      *)
(***************************************************************************)
\* the channels a caller subscribes to
SubChannels == {FOO, BAR, SVC}

\* responses to subscribe and unsubscribe requests (a failed one may come without
\* its subscription), a connect response and an event
SubsResponses ==
    {[channel |-> c, id |-> "0", successful |-> b, subscription |-> x] :
        c \in {SUBSCRIBE, UNSUBSCRIBE}, b \in BOOLEAN, x \in SubChannels}
    \cup {[channel |-> c, id |-> "0", successful |-> FALSE] :
            c \in {SUBSCRIBE, UNSUBSCRIBE}}
    \cup {[channel |-> CONNECT, id |-> "0", successful |-> b] : b \in BOOLEAN}
    \cup {[channel |-> x, data |-> "x"] : x \in SubChannels}

ProcessResponse(response_message) ==
    /\ subs_before' = subscriptions
    /\ subscriptions' = _update_subscriptions(subscriptions, response_message)
    /\ last_message' = <<response_message>>
    /\ UNCHANGED <<ttype, client_id, message_id, reconnect_advice, incoming_queue,
                   max_pending_count, http_semaphore, call, pending_exhanges, rx,
                   next_n, next_p, emitted, done_payloads, correlated, received>>
    /\ UNCHANGED <<pickVars, clientVars, otherVars>>

SubsNext == \E response_message \in SubsResponses : ProcessResponse(response_message)

InitSubs == PickIdle /\ XchgIdle /\ ClientIdle /\ OtherIdle

SpecSubs == InitSubs /\ [][SubsNext]_vars

(***************************************************************************)
(* Negotiation as a specification: every pair of lists, then the pick      *)
(***************************************************************************)
PickInit ==
    /\ connection_types \in SeqsUpTo(ConnectionType, MaxTypes)
    /\ supportedConnectionTypes \in SeqsUpTo(ServerTypeNames, MaxTypes)
    /\ picked = Nil
    /\ pick_pc = "call"

Pick ==
    /\ pick_pc = "call"
    /\ picked' = _pick_connection_type(supportedConnectionTypes, connection_types)
    /\ pick_pc' = "returned"
    /\ UNCHANGED <<connection_types, supportedConnectionTypes>>
    /\ UNCHANGED <<xchgVars, clientVars, otherVars>>

PickNext == Pick

InitPick == PickInit /\ XchgIdle /\ ClientIdle /\ OtherIdle

SpecPick == InitPick /\ [][PickNext]_vars

(***************************************************************************)
(* The client facade and the connection state machine as a specification:  *)
(* one caller that calls open() and close(), the background connect task   *)
(* with its completion callback, and a server that answers every request   *)
(* in every way.  A step runs the code from one await to the next.         *)
(***************************************************************************)
ClientIds == {Nil, "c1"}

\* a call of close() has returned once more
Again(n) == IF n < 2 THEN n + 1 ELSE n

\* the bookkeeping of a call is kept for the state in which the call returns
\* and dropped by the step after it, as are the locals of _negotiate_transport
\* once it has been left
Dropped ==
    /\ supportedConnectionTypes' = <<>>
    /\ picked' = Nil
    /\ pick_pc' = Nil
    /\ negotiating' = IF pc = "open_handshake" THEN negotiating ELSE NoTransport
    /\ first' = IF pc = "idle" THEN NoFirst ELSE first
    /\ UNCHANGED connection_types

\* the slip: no operation looks at the closed flag
NeverInvalid(op, is_closed) == FALSE

\* the first line of Client.open / subscribe / unsubscribe / publish: the
\* operation is invalid in the client's current state
InvalidOperation(op, is_closed) == IF op = "open" THEN ~is_closed ELSE is_closed

\* Client.open up to the await of the handshake response: the closed check, the
\* provisional long-polling transport, its session and the handshake request
Open ==
    /\ pc = "idle"
    /\ IF InvalidOperation("open", closed)
       THEN /\ ret' = [op |-> "open", raised |-> "ClientInvalidOperation"]
            /\ sent' = NoSent
            /\ Dropped
            /\ UNCHANGED <<closed, transport, connect_task, pc, abandoned>>
       ELSE /\ negotiating' =
                  create_transport(DEFAULT_CONNECTION_TYPE, Nil,
                                   SessionFor(NoTransport))
            /\ sent' = Count(NoSent, "handshake")
            /\ pc' = "open_handshake"
            /\ first' = NoFirst
            /\ ret' = NoRet
            /\ supportedConnectionTypes' = <<>>
            /\ picked' = Nil
            /\ pick_pc' = Nil
            /\ UNCHANGED <<connection_types, closed, transport, connect_task,
                           abandoned>>
    /\ closes' = 0
    /\ last_done' = NoDone
    /\ UNCHANGED <<xchgVars, otherVars>>

\* the handshake request fails on the network: _negotiate_transport closes the
\* provisional transport and open() raises
HandshakeError ==
    /\ pc = "open_handshake"
    /\ negotiating' = SessionClosed(negotiating)
    /\ first' = [first EXCEPT !.handshake = "failed"]
    /\ pc' = "idle"
    /\ ret' = [op |-> "open", raised |-> "TransportError"]
    /\ last_done' = NoDone
    /\ UNCHANGED <<closed, transport, connect_task, sent, closes, abandoned>>
    /\ UNCHANGED <<pickVars, xchgVars, otherVars>>

\* the handshake response arrives: handshake(), _verify_response, the pick, the
\* swap of the transport, and connect() up to the await of the first connect task
HandshakeResponse(response, types) ==
    /\ pc = "open_handshake"
    /\ LET t1 == handshake(negotiating, response)
           connection_type == _pick_connection_type(types, connection_types)
           t2 == IF t1.connection_type /= connection_type
                 THEN create_transport(connection_type, t1.client_id,
                                       t1.http_session)
                 ELSE t1
       IN  /\ supportedConnectionTypes' = types
           /\ first' = [first EXCEPT
                           !.handshake = IF response.successful THEN "ok"
                                         ELSE "rejected"]
           /\ IF is_server_error_message(response)
              THEN /\ negotiating' = SessionClosed(t1)
                   /\ picked' = Nil
                   /\ pick_pc' = Nil
                   /\ pc' = "idle"
                   /\ ret' = [op |-> "open", raised |-> "ServerError"]
                   /\ UNCHANGED <<transport, connect_task, abandoned>>
              ELSE /\ picked' = connection_type
                   /\ pick_pc' = "returned"
                   /\ IF connection_type = Nil
                      THEN /\ negotiating' = SessionClosed(t1)
                           /\ pc' = "idle"
                           /\ ret' = [op |-> "open", raised |-> "ClientError"]
                           /\ UNCHANGED <<transport, connect_task, abandoned>>
                      ELSE /\ negotiating' = NoTransport
                           /\ abandoned' = (abandoned \/ Live(connect_task))
                           /\ IF t2.client_id = Nil
                              THEN /\ transport' = t2
                                   /\ connect_task' = NoTask
                                   /\ pc' = "idle"
                                   /\ ret' = [op |-> "open",
                                              raised |-> "TransportInvalidOperation"]
                              ELSE /\ transport' = [t2 EXCEPT !.state = CONNECTING]
                                   /\ connect_task' = Scheduled("connect")
                                   /\ pc' = "open_connect"
                                   /\ ret' = NoRet
    /\ last_done' = NoDone
    /\ UNCHANGED <<connection_types, closed, sent, closes>>
    /\ UNCHANGED <<xchgVars, otherVars>>

\* the connect task runs (after its delay) up to the await of its response; a
\* session that has been closed refuses the request
ConnectSend ==
    /\ connect_task.status = "scheduled"
    /\ IF transport.http_session = "closed"
       THEN /\ connect_task' = [connect_task EXCEPT !.status = "done",
                                                   !.result = Raised("RuntimeError")]
            /\ sent' = Kept(sent)
       ELSE /\ connect_task' = [connect_task EXCEPT !.status = "sent"]
            /\ sent' = IF pc \in {"open_connect", "close_send", "close_session"}
                       THEN Count(sent, connect_task.kind)
                       ELSE Kept(sent)
    /\ ret' = NoRet
    /\ last_done' = NoDone
    /\ Dropped
    /\ UNCHANGED <<closed, transport, pc, closes, abandoned>>
    /\ UNCHANGED <<xchgVars, otherVars>>

\* the request of the connect task ends and the task finishes: _connect or
\* handshake after the await; the completion callback is now due
ConnectRespond(outcome) ==
    /\ connect_task.status = "sent"
    /\ outcome \in Outcomes(transport.connection_type,
                            IF connect_task.kind = "handshake" THEN ClientIds
                            ELSE {Nil})
    /\ connect_task' = [connect_task EXCEPT !.status = "done", !.result = outcome]
    /\ transport' = IF outcome.kind /= "response" THEN transport
                    ELSE IF connect_task.kind = "handshake"
                         THEN handshake(transport, outcome)
                         ELSE _connect(transport, outcome)
    /\ ret' = NoRet
    /\ last_done' = NoDone
    /\ sent' = Kept(sent)
    /\ Dropped
    /\ UNCHANGED <<closed, pc, closes, abandoned>>
    /\ UNCHANGED <<xchgVars, otherVars>>

\* the completion callback _connect_done runs; if open() awaits this task it
\* resumes right after the callback: _verify_response and _closed = False
ConnectDone ==
    /\ connect_task.status = "done"
    /\ LET result == connect_task.result
           done == _connect_done(transport.state, result)
       IN  /\ transport' = [transport EXCEPT !.state = done.state]
           /\ connect_task' = IF done.started /= "none"
                              THEN Scheduled(done.started)
                              ELSE [connect_task EXCEPT !.status = "finished"]
           /\ last_done' = [kind |-> connect_task.kind, result |-> result,
                            before |-> transport.state, after |-> done.state,
                            started |-> done.started]
           /\ IF pc = "open_connect"
              THEN /\ pc' = "idle"
                   /\ first' = [first EXCEPT
                                   !.connect = IF result.kind /= "response"
                                               THEN "failed"
                                               ELSE IF result.successful THEN "ok"
                                               ELSE "rejected"]
                   /\ IF result.kind /= "response"
                      THEN /\ ret' = [op |-> "open", raised |-> result.kind]
                           /\ UNCHANGED closed
                      ELSE IF is_server_error_message(result)
                           THEN /\ ret' = [op |-> "open", raised |-> "ServerError"]
                                /\ UNCHANGED closed
                           ELSE /\ ret' = [op |-> "open", raised |-> "none"]
                                /\ closed' = FALSE
              ELSE /\ ret' = NoRet
                   /\ first' = IF pc = "idle" THEN NoFirst ELSE first
                   /\ UNCHANGED <<pc, closed>>
    /\ sent' = Kept(sent)
    /\ supportedConnectionTypes' = <<>>
    /\ picked' = Nil
    /\ pick_pc' = Nil
    /\ negotiating' = IF pc = "open_handshake" THEN negotiating ELSE NoTransport
    /\ UNCHANGED <<connection_types, closes, abandoned>>
    /\ UNCHANGED <<xchgVars, otherVars>>

\* Client.close: nothing on a closed client; otherwise disconnect() up to its
\* first await that suspends: DISCONNECTING, _stop_connect_task (a task that is
\* not done is cancelled and awaited, its callback finds nothing to do), then
\* the disconnect request or, without it, DISCONNECTED and the transport's close
Close ==
    /\ pc = "idle"
    /\ last_done' = NoDone
    /\ IF closed
       THEN /\ ret' = [op |-> "close", raised |-> "none"]
            /\ closes' = Again(closes)
            /\ sent' = NoSent
            /\ UNCHANGED <<closed, transport, connect_task, pc, abandoned>>
       ELSE LET should_send_message == transport.state = CONNECTED
            IN  /\ connect_task' =
                      IF connect_task.status \in {"scheduled", "sent"}
                      THEN [connect_task EXCEPT !.status = "finished",
                                                !.result = Raised("CancelledError")]
                      ELSE connect_task
                /\ IF should_send_message
                   THEN /\ transport' = [transport EXCEPT !.state = DISCONNECTING]
                        /\ sent' = Count(NoSent, "disconnect")
                        /\ pc' = "close_send"
                   ELSE /\ transport' = [transport EXCEPT !.state = DISCONNECTED]
                        /\ sent' = NoSent
                        /\ pc' = "close_session"
                /\ ret' = NoRet
                /\ UNCHANGED <<closed, closes, abandoned>>
    /\ Dropped
    /\ UNCHANGED <<xchgVars, otherVars>>

\* the disconnect request ends: a response or a TransportError is swallowed and
\* close() goes on to close the transport; an asyncio.TimeoutError is no
\* TransportError and leaves disconnect() and close() through their finally
DisconnectResponse(outcome) ==
    /\ pc = "close_send"
    /\ outcome \in DisconnectOutcomes(transport.connection_type)
    /\ last_done' = NoDone
    /\ IF outcome.kind = "TimeoutError"
       THEN /\ transport' = [transport EXCEPT !.state = DISCONNECTED]
            /\ closed' = TRUE
            /\ pc' = "idle"
            /\ ret' = [op |-> "close", raised |-> "TimeoutError"]
            /\ closes' = Again(closes)
       ELSE /\ transport' = [transport EXCEPT !.state = DISCONNECTED]
            /\ pc' = "close_session"
            /\ ret' = NoRet
            /\ UNCHANGED <<closed, closes>>
    /\ Dropped
    /\ UNCHANGED <<connect_task, sent, abandoned>>
    /\ UNCHANGED <<xchgVars, otherVars>>

\* the transport's close() ends and Client.close returns through its finally
CloseTransport ==
    /\ pc = "close_session"
    /\ transport' = SessionClosed(transport)
    /\ closed' = TRUE
    /\ pc' = "idle"
    /\ ret' = [op |-> "close", raised |-> "none"]
    /\ closes' = Again(closes)
    /\ last_done' = NoDone
    /\ Dropped
    /\ UNCHANGED <<connect_task, sent, abandoned>>
    /\ UNCHANGED <<xchgVars, otherVars>>

\* the names of the operations that send one request for the caller
RequestOps == {"subscribe", "unsubscribe", "publish"}

\* where the caller of such an operation is suspended: in the close() of
\* _check_server_disconnected, or in the exchange with the server
ClosingPc ==
    [subscribe |-> "subscribe_close", unsubscribe |-> "unsubscribe_close",
     publish |-> "publish_close"]
SendingPc ==
    [subscribe |-> "subscribe_send", unsubscribe |-> "unsubscribe_send",
     publish |-> "publish_send"]

\* the slip: the check before a request finds nothing
NeverServerDisconnected(t) == FALSE

\* the condition of Client._check_server_disconnected
ServerDisconnected(t) == t.connection_type /= Nil /\ t.state = SERVER_DISCONNECTED

\* the guard of TransportBase.subscribe / unsubscribe / publish
request_allowed(t) == t.state \in {CONNECTING, CONNECTED}

\* the slip: the client id is not looked at
ConnectAllowedByStateOnly(t) == t.state \in {DISCONNECTED, SERVER_DISCONNECTED}

\* the guards of TransportBase.connect: a client id that is not empty and a
\* state to connect from
connect_allowed(t) ==
    /\ t.client_id \notin {Nil, ""}
    /\ t.state \in {DISCONNECTED, SERVER_DISCONNECTED}

\* Client.subscribe / unsubscribe / publish up to the first await that suspends:
\* the closed check, _check_server_disconnected (whose close() goes DISCONNECTING,
\* finds no connect task to stop, goes DISCONNECTED and closes the transport),
\* the guard of the transport and the request
Request(op) ==
    /\ pc = "idle"
    /\ last_done' = NoDone
    /\ closes' = 0
    /\ Dropped
    /\ IF InvalidOperation(op, closed)
       THEN /\ ret' = [op |-> op, raised |-> "ClientInvalidOperation"]
            /\ sent' = NoSent
            /\ UNCHANGED <<closed, transport, connect_task, pc, abandoned>>
       ELSE IF ServerDisconnected(transport)
            THEN /\ transport' = IF closed THEN transport
                                 ELSE [transport EXCEPT !.state = DISCONNECTED]
                 /\ connect_task' =
                       IF ~closed /\ connect_task.status \in {"scheduled", "sent"}
                       THEN [connect_task EXCEPT !.status = "finished",
                                                 !.result = Raised("CancelledError")]
                       ELSE connect_task
                 /\ pc' = IF closed THEN "idle" ELSE ClosingPc[op]
                 /\ ret' = IF closed THEN [op |-> op, raised |-> "ServerError"]
                           ELSE NoRet
                 /\ sent' = NoSent
                 /\ UNCHANGED <<closed, abandoned>>
            ELSE IF transport.connection_type = Nil
                 THEN /\ ret' = [op |-> op, raised |-> "AssertionError"]
                      /\ sent' = NoSent
                      /\ UNCHANGED <<closed, transport, connect_task, pc, abandoned>>
                 ELSE IF ~request_allowed(transport)
                      THEN /\ ret' = [op |-> op,
                                      raised |-> "TransportInvalidOperation"]
                           /\ sent' = NoSent
                           /\ UNCHANGED <<closed, transport, connect_task, pc,
                                          abandoned>>
                      ELSE /\ sent' = Count(NoSent, "request")
                           /\ pc' = SendingPc[op]
                           /\ ret' = NoRet
                           /\ UNCHANGED <<closed, transport, connect_task,
                                          abandoned>>
    /\ UNCHANGED <<xchgVars, otherVars>>

\* the close() of _check_server_disconnected ends and the operation raises ServerError
RequestClosed(op) ==
    /\ pc = ClosingPc[op]
    /\ transport' = SessionClosed(transport)
    /\ closed' = TRUE
    /\ pc' = "idle"
    /\ ret' = [op |-> op, raised |-> "ServerError"]
    /\ last_done' = NoDone
    /\ Dropped
    /\ UNCHANGED <<connect_task, sent, closes, abandoned>>
    /\ UNCHANGED <<xchgVars, otherVars>>

\* the request of the operation ends: _verify_response on a response, or the
\* exception of the transport
RequestResponse(op, outcome) ==
    /\ pc = SendingPc[op]
    /\ outcome \in DisconnectOutcomes(transport.connection_type)
    /\ pc' = "idle"
    /\ ret' = [op |-> op,
               raised |-> IF outcome.kind /= "response" THEN outcome.kind
                          ELSE IF is_server_error_message(outcome) THEN "ServerError"
                          ELSE "none"]
    /\ last_done' = NoDone
    /\ Dropped
    /\ UNCHANGED <<closed, transport, connect_task, sent, closes, abandoned>>
    /\ UNCHANGED <<xchgVars, otherVars>>

\* the responses to the handshake of open(): the state machine reads no advice
\* from them
HandshakeResponses == {Response(ok, Nil, cid) : ok \in BOOLEAN, cid \in ClientIds}

Next ==
    \/ Open
    \/ HandshakeError
    \/ \E response \in HandshakeResponses, types \in SeqsUpTo(ServerTypeNames, MaxTypes) :
            HandshakeResponse(response, types)
    \/ ConnectSend
    \/ \E outcome \in Outcomes(WEBSOCKET, ClientIds) : ConnectRespond(outcome)
    \/ ConnectDone
    \/ Close
    \/ \E outcome \in DisconnectOutcomes(WEBSOCKET) : DisconnectResponse(outcome)
    \/ CloseTransport
    \/ \E op \in RequestOps : Request(op)
    \/ \E op \in RequestOps : RequestClosed(op)
    \/ \E op \in RequestOps, outcome \in DisconnectOutcomes(WEBSOCKET) :
            RequestResponse(op, outcome)

\* Client.__init__ with every list of connection types up to the bound
Init ==
    /\ connection_types \in SeqsUpTo(ConnectionType, MaxTypes)
    /\ supportedConnectionTypes = <<>>
    /\ picked = Nil
    /\ pick_pc = Nil
    /\ XchgIdle
    /\ ClientIdle
    /\ OtherIdle

Spec == Init /\ [][Next]_vars

(***************************************************************************)
(* Receiving as a specification: one caller that opens, closes and calls   *)
(* receive() (directly or through the asynchronous iterator), the connect  *)
(* task of the transport that changes the state behind the caller's back,  *)
(* and the server's event messages arriving in the queue.  A receive() is  *)
(* three tasks (the queue's get, the wait for SERVER_DISCONNECTED and the  *)
(* connection timeout) raced by asyncio.wait(FIRST_COMPLETED).             *)
(***************************************************************************)
MaxQueue == 2

\* TransportBase._set_state_event on the set of the events that are set
_set_state_event(events, old_state, new_state) ==
    IF new_state /= old_state
    THEN (events \ {old_state}) \cup {new_state}
    ELSE events

\* the slip: a connection timeout that is not restarted when CONNECTED comes back
TimeoutNeverRearmed(task, old_state, new_state) ==
    IF new_state = old_state THEN task
    ELSE IF task = "wait_connecting" /\ new_state = CONNECTING THEN "armed"
    ELSE task

\* Client._wait_connection_timeout across one assignment of the state: the
\* event of CONNECTING starts the timed wait for CONNECTED, the event of
\* CONNECTED ends it and the loop waits for CONNECTING again
_wait_connection_timeout(task, old_state, new_state) ==
    IF new_state = old_state THEN task
    ELSE IF task = "wait_connecting" /\ new_state = CONNECTING THEN "armed"
    ELSE IF task = "armed" /\ new_state = CONNECTED THEN "wait_connecting"
    ELSE task

\* the task of wait_for_state(SERVER_DISCONNECTED) across one assignment
WaitServerDisconnected(done, waiting, old_state, new_state) ==
    done \/ (waiting /\ new_state /= old_state /\ new_state = SERVER_DISCONNECTED)

\* the slip: the iterator ends on any error of receive()
BreakOnAnyError(raised) == raised /= "none"

\* Client.__aiter__: the error of receive() that ends the loop without error
EndsIteration(raised) == raised = "ClientInvalidOperation"

\* the state of the iterator after a receive() that raised what is given
Iterated(it, raised) ==
    IF it /= "running" THEN it
    ELSE IF raised = "none" THEN "running"
    ELSE IF EndsIteration(raised) THEN "ended"
    ELSE "failed"

\* the slip: a closed client never waits for a message
InvalidWhenClosed(is_closed, queue) == is_closed

\* Client.receive, line 398 negated: closed and nothing pending
ReceiveInvalid(is_closed, queue) == ~(~is_closed \/ queue /= <<>>)

\* what this specification leaves alone
RecvFrame ==
    /\ UNCHANGED pickVars
    /\ UNCHANGED <<ttype, client_id, message_id, subscriptions, reconnect_advice,
                   max_pending_count, http_semaphore, call, pending_exhanges, rx,
                   next_p, emitted, done_payloads, correlated, last_message,
                   subs_before>>
    /\ UNCHANGED <<negotiating, connect_task, sent, last_done, first, closes,
                   abandoned>>
    /\ UNCHANGED <<semVars, wsVars, loopVars, sendVars, lateVars>>

\* the state is assigned (once or twice in a row) while a receive() may wait
Assigned(states) ==
    LET RECURSIVE Run(_, _, _, _, _)
        Run(i, st, events, task, sd) ==
            IF i > Len(states) THEN [state |-> st, events |-> events,
                                     task |-> task, sd |-> sd]
            ELSE Run(i + 1, states[i],
                     _set_state_event(events, st, states[i]),
                     _wait_connection_timeout(task, st, states[i]),
                     WaitServerDisconnected(sd, recv_pc = "waiting", st, states[i]))
    IN  Run(1, transport.state, state_events, timeout_task,
            server_disconnected_task)

\* the variables that an assignment of the state touches
Assign(states) ==
    LET a == Assigned(states)
    IN  /\ transport' = [transport EXCEPT !.state = a.state]
        /\ state_events' = a.events
        /\ timeout_task' = a.task
        /\ server_disconnected_task' = a.sd

\* Client.open through _negotiate_transport: a new queue and a new transport
\* with the client id of the handshake
Negotiate ==
    /\ pc = "idle"
    /\ recv_pc = "idle"
    /\ closed
    /\ incoming_queue' = <<>>
    /\ transport' = create_transport(WEBSOCKET, "c1", "open")
    /\ state_events' = {}
    /\ pc' = "negotiated"
    /\ ret' = NoRet
    /\ UNCHANGED <<closed, next_n, received, connection_timeout, recv_pc, get_task,
                   server_disconnected_task, timeout_task, iteration>>
    /\ RecvFrame

\* Client.open: transport.connect() up to the await of the connect task
FirstConnect ==
    /\ pc = "negotiated"
    /\ Assign(<<CONNECTING>>)
    /\ pc' = "connecting"
    /\ ret' = NoRet
    /\ UNCHANGED <<closed, incoming_queue, next_n, received, connection_timeout,
                   recv_pc, get_task, iteration>>
    /\ RecvFrame

\* the first connect ends: _connect_done, then open() verifies the response
OpenDone(result) ==
    /\ pc = "connecting"
    /\ LET st1 == IF result.kind = "response" THEN CONNECTED ELSE CONNECTING
       IN  Assign(<<st1, _connect_done(transport.state, result).state>>)
    /\ closed' = IF result.kind = "response" /\ ~is_server_error_message(result)
                 THEN FALSE ELSE closed
    /\ pc' = "idle"
    /\ ret' = [op |-> "open",
               raised |-> IF result.kind /= "response" THEN result.kind
                          ELSE IF is_server_error_message(result) THEN "ServerError"
                          ELSE "none"]
    /\ UNCHANGED <<incoming_queue, next_n, received, connection_timeout, recv_pc,
                   get_task, iteration>>
    /\ RecvFrame

\* a later connect or handshake of the background task ends: _connect_done
BackgroundDone(result) ==
    /\ pc /= "connecting"
    /\ transport.state \in {CONNECTING, CONNECTED}
    /\ LET st1 == IF result.kind = "response" THEN CONNECTED ELSE CONNECTING
       IN  Assign(<<st1, _connect_done(transport.state, result).state>>)
    /\ ret' = NoRet
    /\ UNCHANGED <<closed, pc, incoming_queue, next_n, received, connection_timeout,
                   recv_pc, get_task, iteration>>
    /\ RecvFrame

\* an event message of the server reaches the queue
Enqueue ==
    /\ transport.state \in {CONNECTING, CONNECTED}
    /\ next_n <= MaxStamp
    /\ Len(incoming_queue) < MaxQueue
    /\ incoming_queue' = QueuePut(incoming_queue, Event(<<"foo">>, next_n, 0))
    /\ next_n' = next_n + 1
    /\ ret' = NoRet
    /\ UNCHANGED <<closed, transport, pc, received, recvVars>>
    /\ RecvFrame

\* Client.close as one step of the caller: nothing on a closed client, else
\* DISCONNECTING, the disconnect request if the state was CONNECTED, then
\* DISCONNECTED unless that request timed out
RecvClose(outcome) ==
    /\ pc = "idle"
    /\ recv_pc = "idle"
    /\ outcome \in DisconnectOutcomes(transport.connection_type)
    /\ IF closed
       THEN /\ ret' = [op |-> "close", raised |-> "none"]
            /\ UNCHANGED <<closed, transport, state_events, timeout_task,
                           server_disconnected_task>>
       ELSE IF transport.state = CONNECTED /\ outcome.kind = "TimeoutError"
            THEN /\ Assign(<<DISCONNECTING>>)
                 /\ closed' = TRUE
                 /\ ret' = [op |-> "close", raised |-> "TimeoutError"]
            ELSE /\ Assign(<<DISCONNECTING, DISCONNECTED>>)
                 /\ closed' = TRUE
                 /\ ret' = [op |-> "close", raised |-> "none"]
    /\ UNCHANGED <<pc, incoming_queue, next_n, received, connection_timeout,
                   recv_pc, get_task, iteration>>
    /\ RecvFrame

\* Client.subscribe / unsubscribe / publish as one step of the caller: the
\* closed check, _check_server_disconnected (close(), then ServerError), the
\* guard of the transport, the request and its response
RecvRequest(op, outcome) ==
    /\ pc = "idle"
    /\ recv_pc = "idle"
    /\ outcome \in DisconnectOutcomes(WEBSOCKET)
    /\ IF InvalidOperation(op, closed)
       THEN /\ ret' = [op |-> op, raised |-> "ClientInvalidOperation"]
            /\ UNCHANGED <<closed, transport, state_events, timeout_task,
                           server_disconnected_task>>
       ELSE IF ServerDisconnected(transport)
            THEN /\ Assign(<<DISCONNECTING, DISCONNECTED>>)
                 /\ closed' = TRUE
                 /\ ret' = [op |-> op, raised |-> "ServerError"]
            ELSE /\ ret' = [op |-> op,
                            raised |->
                               IF ~request_allowed(transport)
                               THEN "TransportInvalidOperation"
                               ELSE IF outcome.kind /= "response" THEN outcome.kind
                               ELSE IF is_server_error_message(outcome)
                                    THEN "ServerError"
                               ELSE "none"]
                 /\ UNCHANGED <<closed, transport, state_events, timeout_task,
                                server_disconnected_task>>
    /\ UNCHANGED <<pc, incoming_queue, next_n, received, connection_timeout,
                   recv_pc, get_task, iteration>>
    /\ RecvFrame

\* async for: the iterator is created
Iterate ==
    /\ pc = "idle"
    /\ recv_pc = "idle"
    /\ iteration /= "running"
    /\ iteration' = "running"
    /\ ret' = NoRet
    /\ UNCHANGED <<closed, transport, pc, incoming_queue, next_n, received,
                   state_events, connection_timeout, recv_pc, get_task,
                   server_disconnected_task, timeout_task>>
    /\ RecvFrame

\* Client.receive up to asyncio.wait, with the first step of each of the three
\* tasks of _get_message: they run before the waiting caller can
ReceiveCall ==
    /\ pc = "idle"
    /\ recv_pc = "idle"
    /\ IF ReceiveInvalid(closed, incoming_queue)
       THEN /\ ret' = [op |-> "receive", raised |-> "ClientInvalidOperation"]
            /\ iteration' = Iterated(iteration, "ClientInvalidOperation")
            /\ UNCHANGED <<incoming_queue, recv_pc, get_task,
                           server_disconnected_task, timeout_task>>
       ELSE IF transport.connection_type = Nil
            THEN /\ ret' = [op |-> "receive", raised |-> "AssertionError"]
                 /\ iteration' = Iterated(iteration, "AssertionError")
                 /\ UNCHANGED <<incoming_queue, recv_pc, get_task,
                                server_disconnected_task, timeout_task>>
            ELSE /\ recv_pc' = "waiting"
                 /\ get_task' = IF incoming_queue /= <<>>
                                THEN <<Head(incoming_queue)>> ELSE <<>>
                 /\ incoming_queue' = IF incoming_queue /= <<>>
                                      THEN Tail(incoming_queue) ELSE incoming_queue
                 /\ server_disconnected_task' = (SERVER_DISCONNECTED \in state_events)
                 /\ timeout_task' =
                       IF connection_timeout = 0 THEN "none"
                       ELSE IF CONNECTING \in state_events THEN "armed"
                       ELSE "wait_connecting"
                 /\ ret' = NoRet
                 /\ UNCHANGED iteration
    /\ UNCHANGED <<closed, transport, pc, next_n, received, state_events,
                   connection_timeout>>
    /\ RecvFrame

\* a message arrives for the waiting get()
GetTask ==
    /\ recv_pc = "waiting"
    /\ get_task = <<>>
    /\ incoming_queue /= <<>>
    /\ get_task' = <<Head(incoming_queue)>>
    /\ incoming_queue' = Tail(incoming_queue)
    /\ ret' = NoRet
    /\ UNCHANGED <<closed, transport, pc, next_n, received, state_events,
                   connection_timeout, recv_pc, server_disconnected_task,
                   timeout_task, iteration>>
    /\ RecvFrame

\* the timed wait for CONNECTED of _wait_connection_timeout runs out
TimeoutExpires ==
    /\ recv_pc = "waiting"
    /\ timeout_task = "armed"
    /\ timeout_task' = "expired"
    /\ ret' = NoRet
    /\ UNCHANGED <<closed, transport, pc, incoming_queue, next_n, received,
                   state_events, connection_timeout, recv_pc, get_task,
                   server_disconnected_task, iteration>>
    /\ RecvFrame

\* the slip: the server's disconnect is looked at before the message
DisconnectFirst(get, disconnected) ==
    IF disconnected THEN "disconnected"
    ELSE IF get /= <<>> THEN "message"
    ELSE "timeout"

\* Client._get_message, lines 490-498: which of the done tasks is handled
HandleDone(get, disconnected) ==
    IF get /= <<>> THEN "message"
    ELSE IF disconnected THEN "disconnected"
    ELSE "timeout"

\* asyncio.wait returns and _get_message looks at what is done: the message
\* first, then the server's disconnect (close(), then ServerError), else the
\* timeout; receive() verifies the message it got
ReceiveReturn ==
    /\ recv_pc = "waiting"
    /\ get_task /= <<>> \/ server_disconnected_task \/ timeout_task = "expired"
    /\ LET handled == HandleDone(get_task, server_disconnected_task)
           raised ==
            IF handled = "message"
            THEN IF Has(get_task[1], "successful") /\ is_server_error_message(get_task[1])
                 THEN "ServerError" ELSE "none"
            ELSE IF handled = "disconnected" THEN "ServerError"
            ELSE "TransportTimeoutError"
       IN  /\ ret' = [op |-> "receive", raised |-> raised]
           /\ iteration' = Iterated(iteration, raised)
           /\ received' = IF raised = "none" THEN Append(received, get_task[1])
                          ELSE received
    /\ IF HandleDone(get_task, server_disconnected_task) = "disconnected" /\ ~closed
       THEN /\ transport' =
                 [transport EXCEPT !.state = Assigned(<<DISCONNECTING, DISCONNECTED>>).state]
            /\ state_events' = Assigned(<<DISCONNECTING, DISCONNECTED>>).events
            /\ closed' = TRUE
       ELSE UNCHANGED <<closed, transport, state_events>>
    /\ recv_pc' = "idle"
    /\ get_task' = <<>>
    /\ server_disconnected_task' = FALSE
    /\ timeout_task' = "none"
    /\ UNCHANGED <<pc, incoming_queue, next_n, connection_timeout>>
    /\ RecvFrame

RecvNext ==
    \/ Negotiate
    \/ FirstConnect
    \/ \E result \in Outcomes(WEBSOCKET, {"c1"}) : OpenDone(result)
    \/ \E result \in Outcomes(WEBSOCKET, {"c1"}) : BackgroundDone(result)
    \/ Enqueue
    \/ \E outcome \in DisconnectOutcomes(WEBSOCKET) : RecvClose(outcome)
    \/ \E op \in RequestOps, outcome \in DisconnectOutcomes(WEBSOCKET) :
            RecvRequest(op, outcome)
    \/ Iterate
    \/ ReceiveCall
    \/ GetTask
    \/ TimeoutExpires
    \/ ReceiveReturn

\* Client.__init__ with and without a connection timeout
InitRecv ==
    /\ PickIdle
    /\ XchgIdle
    /\ ClientIdle
    /\ state_events = {}
    /\ connection_timeout \in {0, 1}
    /\ recv_pc = "idle"
    /\ get_task = <<>>
    /\ server_disconnected_task = FALSE
    /\ timeout_task = "none"
    /\ iteration = "none"
    /\ SemIdle
    /\ WsIdle
    /\ LoopIdle
    /\ SendIdle
    /\ LateIdle

SpecRecv == InitRecv /\ [][RecvNext]_vars

(***************************************************************************)
(* receive() and a close() of another task, with the scheduling of the     *)
(* event loop: a get() on a queue that holds a message completes, a timer  *)
(* that is armed fires, and asyncio.wait returns once one of its tasks is  *)
(* done.                                                                   *)
(***************************************************************************)
\* Client.close called by another task while receive() is suspended in
\* asyncio.wait: disconnect(), transport.close(), _closed = True
CloseWhileReceiving(outcome) ==
    /\ pc = "idle"
    /\ recv_pc = "waiting"
    /\ outcome \in DisconnectOutcomes(transport.connection_type)
    /\ IF closed
       THEN /\ ret' = [op |-> "close", raised |-> "none"]
            /\ UNCHANGED <<closed, transport, state_events, timeout_task,
                           server_disconnected_task>>
       ELSE IF transport.state = CONNECTED /\ outcome.kind = "TimeoutError"
            THEN /\ Assign(<<DISCONNECTING>>)
                 /\ closed' = TRUE
                 /\ ret' = [op |-> "close", raised |-> "TimeoutError"]
            ELSE /\ Assign(<<DISCONNECTING, DISCONNECTED>>)
                 /\ closed' = TRUE
                 /\ ret' = [op |-> "close", raised |-> "none"]
    /\ UNCHANGED <<pc, incoming_queue, next_n, received, connection_timeout,
                   recv_pc, get_task, iteration>>
    /\ RecvFrame

RecvLiveNext ==
    \/ RecvNext
    \/ \E outcome \in DisconnectOutcomes(WEBSOCKET) : CloseWhileReceiving(outcome)

SpecRecvLive ==
    /\ InitRecv
    /\ [][RecvLiveNext]_vars
    /\ WF_vars(GetTask)
    /\ WF_vars(TimeoutExpires)
    /\ WF_vars(ReceiveReturn)

(***************************************************************************)
(* The semaphore of the long-polling transport as a specification: several *)
(* callers (the connect task, subscribe, unsubscribe, publish, disconnect) *)
(* in LongPollingTransport._send_final_payload, each inside                *)
(* `async with self._http_semaphore` around session.post().  The semaphore *)
(* is asyncio's: acquire() takes a free slot at once, else queues a future *)
(* and, when woken, looks at the value again; release() adds a slot and    *)
(* wakes the first waiter that is not done.                                *)
(***************************************************************************)
MaxRequesters == 3
MaxRequests == 2

Requesters == 1..MaxRequesters

\* the number of requests that are in session.post()
InFlight == Cardinality({r \in Requesters : requests[r].pc = "posted"})

\* the slip: acquire() never waits
AlwaysAcquire(value) == TRUE

\* asyncio.Semaphore.acquire: a slot is free
CanAcquire(value) == value > 0

\* asyncio.Semaphore._wake_up_next: the first waiter that is not done is
\* popped and woken, the done ones before it are dropped
RECURSIVE _wake_up_next(_)
_wake_up_next(waiters) ==
    IF waiters = <<>> THEN [waiters |-> <<>>, woken |-> 0]
    ELSE IF Head(waiters).cancelled THEN _wake_up_next(Tail(waiters))
    ELSE [waiters |-> Tail(waiters), woken |-> Head(waiters).who]

\* asyncio.Semaphore.release on the value and the waiters
Released(r) ==
    LET next == _wake_up_next(sem_waiters)
    IN  /\ http_semaphore' = http_semaphore + 1
        /\ sem_waiters' = next.waiters
        /\ requests' = [q \in Requesters |->
                            IF q = r THEN [requests[q] EXCEPT !.pc = "idle"]
                            ELSE IF q = next.woken
                                 THEN [requests[q] EXCEPT !.pc = "woken"]
                            ELSE requests[q]]

\* what this specification leaves alone
SemFrame ==
    /\ UNCHANGED pickVars
    /\ UNCHANGED <<ttype, client_id, message_id, subscriptions, reconnect_advice,
                   incoming_queue, max_pending_count, call, pending_exhanges, rx,
                   next_n, next_p, emitted, done_payloads, correlated, received,
                   last_message, subs_before>>
    /\ UNCHANGED clientVars
    /\ UNCHANGED <<recvVars, wsVars, loopVars, sendVars, lateVars>>

\* a caller enters `async with self._http_semaphore`: acquire() up to its await
SemAcquire(r) ==
    /\ requests[r].pc = "idle"
    /\ requests[r].n < MaxRequests
    /\ IF CanAcquire(http_semaphore)
       THEN /\ http_semaphore' = http_semaphore - 1
            /\ requests' = [requests EXCEPT ![r].pc = "posted", ![r].n = @ + 1]
            /\ UNCHANGED sem_waiters
       ELSE /\ sem_waiters' = Append(sem_waiters, [who |-> r, cancelled |-> FALSE])
            /\ requests' = [requests EXCEPT ![r].pc = "waiting", ![r].n = @ + 1]
            /\ UNCHANGED http_semaphore
    /\ SemFrame

\* a woken caller runs: the loop of acquire() looks at the value again
SemResume(r) ==
    /\ requests[r].pc = "woken"
    /\ IF CanAcquire(http_semaphore)
       THEN /\ http_semaphore' = http_semaphore - 1
            /\ requests' = [requests EXCEPT ![r].pc = "posted"]
            /\ UNCHANGED sem_waiters
       ELSE /\ sem_waiters' = Append(sem_waiters, [who |-> r, cancelled |-> FALSE])
            /\ requests' = [requests EXCEPT ![r].pc = "waiting"]
            /\ UNCHANGED http_semaphore
    /\ SemFrame

\* session.post() returns or raises: the `async with` releases the slot
SemRelease(r) ==
    /\ requests[r].pc = "posted"
    /\ Released(r)
    /\ SemFrame

\* the task of a caller is cancelled (disconnect() stops the connect task):
\* in session.post() the slot is released; a waiting future is cancelled and
\* stays in the queue; a woken caller hands its wake-up on if a slot is free
SemCancel(r) ==
    /\ requests[r].pc \in {"posted", "waiting", "woken"}
    /\ IF requests[r].pc = "posted"
       THEN Released(r)
       ELSE IF requests[r].pc = "waiting"
            THEN /\ sem_waiters' =
                      [i \in 1..Len(sem_waiters) |->
                          IF sem_waiters[i].who = r
                          THEN [sem_waiters[i] EXCEPT !.cancelled = TRUE]
                          ELSE sem_waiters[i]]
                 /\ requests' = [requests EXCEPT ![r].pc = "idle"]
                 /\ UNCHANGED http_semaphore
            ELSE LET next == IF http_semaphore > 0 THEN _wake_up_next(sem_waiters)
                             ELSE [waiters |-> sem_waiters, woken |-> 0]
                 IN  /\ sem_waiters' = next.waiters
                     /\ requests' = [q \in Requesters |->
                            IF q = r THEN [requests[q] EXCEPT !.pc = "idle"]
                            ELSE IF q = next.woken
                                 THEN [requests[q] EXCEPT !.pc = "woken"]
                            ELSE requests[q]]
                     /\ UNCHANGED http_semaphore
    /\ SemFrame

SemNext ==
    \/ \E r \in Requesters : SemAcquire(r)
    \/ \E r \in Requesters : SemResume(r)
    \/ \E r \in Requesters : SemRelease(r)
    \/ \E r \in Requesters : SemCancel(r)

\* LongPollingTransport.__init__: the semaphore of two slots, nobody in it
InitSem ==
    /\ PickIdle
    /\ XchgIdle
    /\ ClientIdle
    /\ RecvIdle
    /\ requests = [r \in Requesters |-> [pc |-> "idle", n |-> 0]]
    /\ sem_waiters = <<>>
    /\ WsIdle
    /\ LoopIdle
    /\ SendIdle
    /\ LateIdle

SpecSem == InitSem /\ [][SemNext]_vars

\* the event loop runs every woken caller, and every request that was posted
\* ends (with a response, an error or the request timeout)
SpecSemFair ==
    /\ SpecSem
    /\ \A r \in Requesters : WF_vars(SemResume(r)) /\ WF_vars(SemRelease(r))

(***************************************************************************)
(* The websocket transport's socket as a specification: callers in         *)
(* WebSocketTransport._send_final_payload, the socket factory, the receive *)
(* task with the server's frames and close frames, and                     *)
(* WebSocketTransport.close, which cancels the receive task.  Whether the  *)
(* `except Exception` of _receive sees the CancelledError depends on the   *)
(* interpreter (an Exception up to Python 3.7, a BaseException from 3.8).  *)
(***************************************************************************)
MaxWsCallers == 2
MaxWsRequests == 1
MaxSockets == 3

WsCallers == 1..MaxWsCallers

IdleWsCall ==
    [pc |-> "idle", future |-> "none", attempt |-> 0, socket |-> 0,
     written |-> <<>>, error |-> "none"]

NoReceiveTask == [status |-> "none", socket |-> 0, result |-> "none"]

\* the slip: a connection-closed error is always answered with a resend
RetryAgain(attempt) == TRUE

\* _send_final_payload: the resend sits in the except clause of the first send
MayRetry(attempt) == attempt = 1

\* the payload of caller r: one message with the caller's id and the client id
WsPayload(r) == <<[id |-> r, clientId |-> "c1"]>>

\* WebSocketTransport._set_exchange_errors on the callers' futures
_set_exchange_errors(calls, pending, error) ==
    [r \in WsCallers |->
        IF (\E id \in DOMAIN pending : pending[id] = r) /\ calls[r].future = "pending"
        THEN [calls[r] EXCEPT !.future = error]
        ELSE calls[r]]

\* the same on the record of the futures that were outstanding at close()
Rejected(out, pending, error) ==
    [r \in DOMAIN out |->
        IF (\E id \in DOMAIN pending : pending[id] = r) /\ out[r] = "pending"
        THEN error ELSE out[r]]

\* what this specification leaves alone
WsFrame ==
    /\ UNCHANGED pickVars
    /\ UNCHANGED <<ttype, client_id, message_id, subscriptions, reconnect_advice,
                   incoming_queue, max_pending_count, http_semaphore, call, rx,
                   next_n, next_p, emitted, done_payloads, correlated, received,
                   last_message, subs_before>>
    /\ UNCHANGED clientVars
    /\ UNCHANGED recvVars
    /\ UNCHANGED semVars
    /\ UNCHANGED <<loopVars, sendVars, lateVars>>

\* _send_socket_payload(socket, payload) up to "await future" for caller r whose
\* record is c: the future is stored under the id of the payload, the payload is
\* written and the receive task is started if there is none; a failed write
\* rejects every pending exchange and is raised as TransportError
SendSocketPayload(r, c, s, ok) ==
    LET pending == (r :> r) @@ pending_exhanges
        calls == [ws_calls EXCEPT ![r] =
                    [c EXCEPT !.future = "pending", !.socket = s,
                              !.written = Append(@, WsPayload(r))]]
    IN  IF ok
        THEN /\ ws_calls' = [calls EXCEPT ![r].pc = "awaiting"]
             /\ pending_exhanges' = pending
             /\ receive_task' = IF receive_task.status = "none"
                                THEN [status |-> "running", socket |-> s,
                                      result |-> "none"]
                                ELSE receive_task
        ELSE /\ ws_calls' = [_set_exchange_errors(calls, pending, "ClientError")
                                EXCEPT ![r].pc = "raised",
                                       ![r].error = "TransportError"]
             /\ pending_exhanges' = <<>>
             /\ UNCHANGED receive_task

\* _get_socket and the send for caller r whose record is c: WebSocketFactory.__call__
\* drops a socket that is closed, and with no socket suspends in ws_connect
GetSocketAndSend(r, c, ok) ==
    LET socket == IF ws_socket /= 0 /\ ws_socket \in ws_closed_sockets
                  THEN 0 ELSE ws_socket
    IN  IF socket = 0
        THEN /\ ws_socket' = 0
             /\ ws_calls' = [ws_calls EXCEPT ![r] = [c EXCEPT !.pc = "entering"]]
             /\ UNCHANGED <<pending_exhanges, receive_task>>
        ELSE /\ SendSocketPayload(r, c, socket, ok)
             /\ UNCHANGED ws_socket

\* a caller sends a request: _send_final_payload up to its first suspension
WsRequest(r, ok) ==
    /\ ws_close_pc = "idle"
    /\ ws_calls[r].pc = "idle"
    /\ ws_sent[r] < MaxWsRequests
    /\ ws_sent' = [ws_sent EXCEPT ![r] = @ + 1]
    /\ GetSocketAndSend(r, [IdleWsCall EXCEPT !.attempt = 1], ok)
    /\ UNCHANGED <<ws_closed_sockets, ws_next, ws_close_pc, cancelled_is_exception,
                   outstanding>>
    /\ WsFrame

\* ws_connect has opened a socket for the caller: the factory keeps it and the
\* payload is sent on it
WsEntered(r, ok) ==
    /\ ws_calls[r].pc = "entering"
    /\ ws_next <= MaxSockets
    /\ ws_socket' = ws_next
    /\ ws_next' = ws_next + 1
    /\ SendSocketPayload(r, ws_calls[r], ws_next, ok)
    /\ UNCHANGED <<ws_closed_sockets, ws_sent, ws_close_pc, cancelled_is_exception,
                   outstanding>>
    /\ WsFrame

\* ws_connect fails with aiohttp's ClientError: TransportError
WsEnterFails(r) ==
    /\ ws_calls[r].pc = "entering"
    /\ ws_calls' = [ws_calls EXCEPT ![r].pc = "raised", ![r].error = "TransportError"]
    /\ UNCHANGED <<pending_exhanges, ws_socket, ws_closed_sockets, ws_next,
                   receive_task, ws_sent, ws_close_pc, cancelled_is_exception,
                   outstanding>>
    /\ WsFrame

\* _receive reads the response to caller r from its socket: _set_exchange_results
WsResponse(r) ==
    /\ ws_close_pc /= "cancelling"
    /\ receive_task.status = "running"
    /\ ws_calls[r].socket = receive_task.socket
    /\ r \in DOMAIN pending_exhanges
    /\ ws_calls[r].future = "pending"
    /\ ws_calls' = [ws_calls EXCEPT ![r].future = "result"]
    /\ pending_exhanges' = [id \in DOMAIN pending_exhanges \ {r} |-> pending_exhanges[id]]
    /\ outstanding' = [q \in DOMAIN outstanding |->
                          IF q = r /\ outstanding[q] = "pending" THEN "result"
                          ELSE outstanding[q]]
    /\ UNCHANGED <<ws_socket, ws_closed_sockets, ws_next, receive_task, ws_sent,
                   ws_close_pc, cancelled_is_exception>>
    /\ WsFrame

\* _receive reads a CLOSE frame: the socket is closed, TransportConnectionClosed
\* is set on every pending exchange, the map is cleared and the task ends
WsCloseFrame ==
    /\ ws_close_pc /= "cancelling"
    /\ receive_task.status = "running"
    /\ ws_closed_sockets' = ws_closed_sockets \cup {receive_task.socket}
    /\ ws_calls' = _set_exchange_errors(ws_calls, pending_exhanges,
                                        "TransportConnectionClosed")
    /\ outstanding' = Rejected(outstanding, pending_exhanges,
                               "TransportConnectionClosed")
    /\ pending_exhanges' = <<>>
    /\ receive_task' = [receive_task EXCEPT !.status = "done",
                                            !.result = "TransportConnectionClosed"]
    /\ UNCHANGED <<ws_socket, ws_next, ws_sent, ws_close_pc, cancelled_is_exception>>
    /\ WsFrame

\* _receive_done: the task is forgotten; the CancelledError that is no
\* Exception leaves the callback before that
WsReceiveDone ==
    /\ receive_task.status = "done"
    /\ receive_task' =
          IF receive_task.result = "CancelledError" /\ ~cancelled_is_exception
          THEN [receive_task EXCEPT !.status = "kept"]
          ELSE NoReceiveTask
    /\ UNCHANGED <<ws_calls, pending_exhanges, ws_socket, ws_closed_sockets, ws_next,
                   ws_sent, ws_close_pc, cancelled_is_exception, outstanding>>
    /\ WsFrame

\* "await future" ends for the caller: the response, or the error; the first
\* TransportConnectionClosed is answered by _get_socket and a resend
WsAwaited(r, ok) ==
    /\ ws_calls[r].pc = "awaiting"
    /\ ws_calls[r].future \notin {"none", "pending"}
    /\ IF ws_calls[r].future = "result"
       THEN /\ ws_calls' = [ws_calls EXCEPT ![r].pc = "returned"]
            /\ UNCHANGED <<pending_exhanges, receive_task, ws_socket>>
       ELSE IF ws_calls[r].future = "TransportConnectionClosed"
                    /\ MayRetry(ws_calls[r].attempt)
                    /\ Len(ws_calls[r].written) < MaxSockets
            THEN GetSocketAndSend(r, [ws_calls[r] EXCEPT !.attempt = @ + 1], ok)
            ELSE /\ ws_calls' =
                      [ws_calls EXCEPT ![r].pc = "raised",
                                       ![r].error =
                                           IF ws_calls[r].future = "ClientError"
                                           THEN "TransportError"
                                           ELSE ws_calls[r].future]
                 /\ UNCHANGED <<pending_exhanges, receive_task, ws_socket>>
    /\ UNCHANGED <<ws_closed_sockets, ws_next, ws_sent, ws_close_pc,
                   cancelled_is_exception, outstanding>>
    /\ WsFrame

\* the caller has its response or its error
WsFinish(r) ==
    /\ ws_calls[r].pc \in {"returned", "raised"}
    /\ ws_calls' = [ws_calls EXCEPT ![r] = IdleWsCall]
    /\ UNCHANGED <<pending_exhanges, ws_socket, ws_closed_sockets, ws_next,
                   receive_task, ws_sent, ws_close_pc, cancelled_is_exception,
                   outstanding>>
    /\ WsFrame

\* WebSocketTransport.close up to asyncio.wait: a receive task that is not done
\* is cancelled
WsClose ==
    /\ ws_close_pc = "idle"
    /\ ws_close_pc' = IF receive_task.status = "running" THEN "cancelling"
                      ELSE "closing"
    /\ outstanding' = [r \in {q \in WsCallers : ws_calls[q].future = "pending"}
                          |-> "pending"]
    /\ UNCHANGED <<ws_calls, pending_exhanges, ws_socket, ws_closed_sockets, ws_next,
                   receive_task, ws_sent, cancelled_is_exception>>
    /\ WsFrame

\* the cancelled _receive: its `except Exception` sets the CancelledError on
\* the pending exchanges only where CancelledError is an Exception
WsCancelled ==
    /\ ws_close_pc = "cancelling"
    /\ receive_task.status = "running"
    /\ IF cancelled_is_exception
       THEN /\ ws_calls' = _set_exchange_errors(ws_calls, pending_exhanges,
                                                "CancelledError")
            /\ outstanding' = Rejected(outstanding, pending_exhanges, "CancelledError")
            /\ pending_exhanges' = <<>>
       ELSE UNCHANGED <<ws_calls, pending_exhanges, outstanding>>
    /\ receive_task' = [receive_task EXCEPT !.status = "done",
                                            !.result = "CancelledError"]
    /\ ws_close_pc' = "closing"
    /\ UNCHANGED <<ws_socket, ws_closed_sockets, ws_next, ws_sent,
                   cancelled_is_exception>>
    /\ WsFrame

\* WebSocketTransport.close after the wait: the socket factory is closed
WsClosed ==
    /\ ws_close_pc = "closing"
    /\ ws_close_pc' = "closed"
    /\ ws_closed_sockets' = ws_closed_sockets \cup ({ws_socket} \ {0})
    /\ ws_socket' = 0
    /\ UNCHANGED <<ws_calls, pending_exhanges, ws_next, receive_task, ws_sent,
                   cancelled_is_exception, outstanding>>
    /\ WsFrame

WsNext ==
    \/ \E r \in WsCallers, ok \in BOOLEAN : WsRequest(r, ok)
    \/ \E r \in WsCallers, ok \in BOOLEAN : WsEntered(r, ok)
    \/ \E r \in WsCallers : WsEnterFails(r)
    \/ \E r \in WsCallers : WsResponse(r)
    \/ WsCloseFrame
    \/ WsReceiveDone
    \/ \E r \in WsCallers, ok \in BOOLEAN : WsAwaited(r, ok)
    \/ \E r \in WsCallers : WsFinish(r)
    \/ WsClose
    \/ WsCancelled
    \/ WsClosed

\* WebSocketTransport.__init__ on either kind of interpreter
InitWs ==
    /\ PickIdle
    /\ XchgIdle
    /\ ClientIdle
    /\ RecvIdle
    /\ SemIdle
    /\ LoopIdle
    /\ SendIdle
    /\ LateIdle
    /\ ws_calls = [r \in WsCallers |-> IdleWsCall]
    /\ ws_socket = 0
    /\ ws_closed_sockets = {}
    /\ ws_next = 1
    /\ receive_task = NoReceiveTask
    /\ ws_sent = [r \in WsCallers |-> 0]
    /\ ws_close_pc = "idle"
    /\ cancelled_is_exception \in BOOLEAN
    /\ outstanding = <<>>

SpecWs == InitWs /\ [][WsNext]_vars

(***************************************************************************)
(* The transport's own operations as a specification: callers that use a   *)
(* transport directly (handshake, connect, subscribe, unsubscribe,         *)
(* publish, disconnect) in any order, and its connect task.  A call is     *)
(* followed up to its first await; ret says what it raised there, or that  *)
(* it was accepted and is waiting for the server.                          *)
(***************************************************************************)
\* the client ids a handshake response can carry: none, an empty one, a real one
GuardClientIds == {Nil, "", "c1"}

\* what this specification leaves alone
GuardFrame ==
    /\ UNCHANGED pickVars
    /\ UNCHANGED xchgVars
    /\ UNCHANGED otherVars
    /\ UNCHANGED <<closed, negotiating, pc, last_done, first, closes, abandoned>>

\* TransportBase.handshake with its response: there is no guard; a successful
\* response gives the client id
GuardHandshake(ok, cid) ==
    /\ transport' = IF ok
                    THEN [transport EXCEPT !.client_id = cid,
                                           !.subscribe_on_connect = TRUE]
                    ELSE transport
    /\ sent' = Count(NoSent, "handshake")
    /\ ret' = [op |-> "handshake", raised |-> "none"]
    /\ UNCHANGED connect_task
    /\ GuardFrame

\* TransportBase.connect up to the await of the connect task
GuardConnect ==
    /\ IF connect_allowed(transport)
       THEN /\ transport' = [transport EXCEPT !.state = CONNECTING]
            /\ connect_task' = [kind |-> "connect", status |-> "sent",
                                result |-> NoResult]
            /\ sent' = Count(NoSent, "connect")
            /\ ret' = [op |-> "connect", raised |-> "accepted"]
       ELSE /\ ret' = [op |-> "connect", raised |-> "TransportInvalidOperation"]
            /\ sent' = NoSent
            /\ UNCHANGED <<transport, connect_task>>
    /\ GuardFrame

\* TransportBase.subscribe / unsubscribe / publish up to the await of the response
GuardRequest(op) ==
    /\ IF request_allowed(transport)
       THEN /\ sent' = Count(NoSent, "request")
            /\ ret' = [op |-> op, raised |-> "accepted"]
       ELSE /\ ret' = [op |-> op, raised |-> "TransportInvalidOperation"]
            /\ sent' = NoSent
    /\ UNCHANGED <<transport, connect_task>>
    /\ GuardFrame

\* the connect task ends and _connect_done follows the advice
GuardConnectDone(result) ==
    /\ connect_task.status = "sent"
    /\ LET done == _connect_done(transport.state, result)
       IN  /\ transport' = [transport EXCEPT !.state = done.state]
           /\ connect_task' = IF done.started = "none" THEN NoTask
                              ELSE [kind |-> done.started, status |-> "sent",
                                    result |-> NoResult]
           /\ sent' = IF done.started = "none" THEN NoSent
                      ELSE Count(NoSent, done.started)
    /\ ret' = NoRet
    /\ GuardFrame

\* TransportBase.disconnect up to its first await: the state is DISCONNECTING
\* and the connect task is cancelled; the disconnect message goes out only
\* when the transport was CONNECTED
GuardDisconnect ==
    /\ transport' = [transport EXCEPT !.state = DISCONNECTING]
    /\ connect_task' = NoTask
    /\ sent' = IF transport.state = CONNECTED THEN Count(NoSent, "disconnect")
               ELSE NoSent
    /\ ret' = [op |-> "disconnect", raised |-> "accepted"]
    /\ GuardFrame

\* the finally clause of TransportBase.disconnect
GuardDisconnected ==
    /\ transport.state = DISCONNECTING
    /\ transport' = [transport EXCEPT !.state = DISCONNECTED]
    /\ sent' = NoSent
    /\ ret' = [op |-> "disconnect", raised |-> "none"]
    /\ UNCHANGED connect_task
    /\ GuardFrame

GuardNext ==
    \/ \E ok \in BOOLEAN, cid \in GuardClientIds : GuardHandshake(ok, cid)
    \/ GuardConnect
    \/ \E op \in RequestOps : GuardRequest(op)
    \/ \E result \in Outcomes(LONG_POLLING, {Nil}) : GuardConnectDone(result)
    \/ GuardDisconnect
    \/ GuardDisconnected

\* a transport of either type right after its construction
InitGuard ==
    /\ PickIdle
    /\ XchgIdle
    /\ OtherIdle
    /\ closed = TRUE
    /\ transport \in {create_transport(t, Nil, "open") : t \in ConnectionType}
    /\ negotiating = NoTransport
    /\ connect_task = NoTask
    /\ pc = "idle"
    /\ sent = NoSent
    /\ ret = NoRet
    /\ last_done = NoDone
    /\ first = NoFirst
    /\ closes = 0
    /\ abandoned = FALSE

SpecGuard == InitGuard /\ [][GuardNext]_vars

(***************************************************************************)
(* The connection loop of one transport as a specification: one caller     *)
(* that uses the transport as the client does (handshake, connect,         *)
(* subscribe, unsubscribe, disconnect, one call at a time), the background *)
(* task of _start_connect_task with its completion callback, and a server  *)
(* that answers every request in every way.  The transport carries its     *)
(* message id counter, its subscriptions and the interval of the advice it *)
(* has stored; finalized is the payload the last step has finalised.       *)
(***************************************************************************)
\* the message id counter stops here
MaxLoopId == 4

\* TransportBase.__init__: reconnection_timeout = 1
RECONNECT_TIMEOUT == 1

\* advice.get("interval") of the server; an advice without interval gives None,
\* which defer() treats as it treats 0: the task does not sleep
Intervals == {0, 5}

\* the channels the caller subscribes to
LoopChannels == {FOO, BAR}

HANDSHAKE_MESSAGE ==
    [channel |-> HANDSHAKE, version |-> "1.0", supportedConnectionTypes |-> Nil,
     minimumVersion |-> "1.0", id |-> Nil]
CONNECT_MESSAGE ==
    [channel |-> CONNECT, clientId |-> Nil, connectionType |-> Nil, id |-> Nil]
DISCONNECT_MESSAGE ==
    [channel |-> DISCONNECT, clientId |-> Nil, id |-> Nil]

\* TransportBase.__init__ with the fields the loop reads
LoopTransport(conn_type) ==
    [connection_type |-> conn_type, client_id |-> Nil, state |-> DISCONNECTED,
     subscribe_on_connect |-> FALSE, http_session |-> "open",
     message_id |-> 0, subscriptions |-> {}, interval |-> 0]

\* no task, and a task that waits for its delay to pass
\* (follows is bookkeeping: what has started the task)
LoopNoTask ==
    [kind |-> "none", status |-> "none", result |-> NoResult, delay |-> 0,
     follows |-> "none"]
LoopScheduled(kind, delay, follows) ==
    [kind |-> kind, status |-> "scheduled", result |-> NoResult, delay |-> delay,
     follows |-> follows]

\* what a task follows that _connect_done starts: a handshake or a connect that
\* the server has accepted, one that it has rejected, or an exception
Follows(kind, result) ==
    IF result.kind /= "response" THEN "error"
    ELSE IF ~result.successful THEN "rejected"
    ELSE kind

LoopNoDone == [kind |-> "none", result |-> NoResult, before |-> DISCONNECTED,
               after |-> DISCONNECTED, started |-> "none", delay |-> 0]

\* the orders in which a set can be iterated
Orders(S) == {s \in [1..Cardinality(S) -> S] : Range(s) = S}

\* the messages of a payload that get an id
WithId(payload, n) == {i \in 1..n : Has(payload[i], "id")}

\* TransportBase._finalize_payload on a list of messages
_finalize_payload(payload, counter, cid, conn_type) ==
    [i \in 1..Len(payload) |->
        _finalize_message(payload[i], counter + Cardinality(WithId(payload, i - 1)),
                          cid, conn_type)]

\* the slip: the counter is not advanced
CounterStays(payload, counter) == counter

\* _message_id after _finalize_payload
NextMessageId(payload, counter) == counter + Cardinality(WithId(payload, Len(payload)))

\* the slip: the caller's list is sent as it is
TypesAsGiven(own, types) == types

\* TransportBase.handshake, lines 242-246: the list of connection types sent
HandshakeTypes(own, types) ==
    IF own \in Range(types) THEN types ELSE Append(types, own)

\* the slip: the subscriptions are never sent with a connect
ConnectOnly(t, order) == <<CONNECT_MESSAGE>>

\* TransportBase._connect, lines 517-523: the payload of a connect; order is the
\* order in which the set of subscriptions is iterated
_connect_payload(t, order) ==
    IF t.subscribe_on_connect /\ t.subscriptions /= {}
    THEN <<CONNECT_MESSAGE>> \o
         [i \in 1..Len(order) |-> [SUBSCRIBE_MESSAGE EXCEPT !.subscription = order[i]]]
    ELSE <<CONNECT_MESSAGE>>

\* the slip: the delay after a failure is the interval of the advice
AdvisedTimeout(result, interval) == interval

\* _connect_done, lines 538 and 552: the delay of the operation that follows
ReconnectTimeout(result, interval) ==
    IF result.kind = "response" THEN interval ELSE RECONNECT_TIMEOUT

\* _consume_payload, lines 446-447: the advice of a message replaces the stored
\* one; interval is <<>> for a message without advice and <<i>> for an advice
\* whose interval is i
StoreAdvice(t, interval) ==
    IF interval = <<>> THEN t ELSE [t EXCEPT !.interval = interval[1]]

\* the intervals a message with the given advice["reconnect"] can come with
IntervalsOf(reconnect) ==
    {<<i>> : i \in Intervals} \cup (IF reconnect = Nil THEN {<<>>} ELSE {})

\* what this specification leaves alone
LoopFrame ==
    /\ UNCHANGED pickVars
    /\ UNCHANGED xchgVars
    /\ UNCHANGED <<recvVars, semVars, wsVars, sendVars, lateVars>>
    /\ UNCHANGED <<closed, negotiating, sent, first, closes, abandoned>>

\* a task that has not finished: disconnect() cancels it
LoopPending(task) == task.status \in {"scheduled", "sent"}

\* TransportBase.handshake called by the client, up to the await of the response
LoopHandshake(types) ==
    /\ pc = "idle"
    /\ LET payload == <<[HANDSHAKE_MESSAGE EXCEPT !.supportedConnectionTypes =
                            HandshakeTypes(transport.connection_type, types)]>>
       IN  /\ finalized' = _finalize_payload(payload, 0, transport.client_id,
                                             transport.connection_type)
           /\ transport' = [transport EXCEPT !.message_id = NextMessageId(payload, 0)]
    /\ pc' = "handshake"
    /\ ret' = NoRet
    /\ last_done' = LoopNoDone
    /\ UNCHANGED connect_task
    /\ responded' = <<>>
    /\ LoopFrame

\* the handshake of the client ends (nothing reads advice["reconnect"] of its
\* response, so the responses without it stand for all)
LoopHandshakeResponse(outcome, interval) ==
    /\ pc = "handshake"
    /\ transport' = IF outcome.kind = "response"
                    THEN handshake(StoreAdvice(transport, interval), outcome)
                    ELSE transport
    /\ pc' = "idle"
    /\ ret' = [op |-> "handshake",
               raised |-> IF outcome.kind = "response" THEN "none" ELSE outcome.kind]
    /\ finalized' = <<>>
    /\ last_done' = LoopNoDone
    /\ UNCHANGED connect_task
    /\ responded' = <<outcome>>
    /\ LoopFrame

\* TransportBase.connect up to the await of the first connect task; the client
\* calls it once on a transport, so never while a task of that transport is alive
LoopConnect ==
    /\ pc = "idle"
    /\ ~LoopPending(connect_task) /\ connect_task.status /= "done"
    /\ IF connect_allowed(transport)
       THEN /\ transport' = [transport EXCEPT !.state = CONNECTING]
            /\ connect_task' = LoopScheduled("connect", 0, "call")
            /\ pc' = "connect"
            /\ ret' = NoRet
       ELSE /\ ret' = [op |-> "connect", raised |-> "TransportInvalidOperation"]
            /\ UNCHANGED <<transport, connect_task, pc>>
    /\ finalized' = <<>>
    /\ last_done' = LoopNoDone
    /\ responded' = <<>>
    /\ LoopFrame

\* the task runs once its delay has passed, up to the await of the response:
\* _connect builds and finalises its payload, handshake resets the counter and
\* finalises its message
LoopTaskSend(order) ==
    /\ connect_task.status = "scheduled"
    /\ LET payload ==
               IF connect_task.kind = "handshake"
               THEN <<[HANDSHAKE_MESSAGE EXCEPT !.supportedConnectionTypes =
                          HandshakeTypes(transport.connection_type,
                                         <<transport.connection_type>>)]>>
               ELSE _connect_payload(transport, order)
           counter == IF connect_task.kind = "handshake" THEN 0
                      ELSE transport.message_id
       IN  /\ NextMessageId(payload, counter) <= MaxLoopId
           /\ finalized' = _finalize_payload(payload, counter, transport.client_id,
                                             transport.connection_type)
           /\ transport' = [transport EXCEPT
                               !.message_id = NextMessageId(payload, counter)]
    /\ connect_task' = [connect_task EXCEPT !.status = "sent"]
    /\ ret' = NoRet
    /\ last_done' = LoopNoDone
    /\ UNCHANGED pc
    /\ responded' = <<>>
    /\ LoopFrame

\* the request of the task ends and the task finishes: the payload is consumed
\* (the advice is stored, a rejected resubscription is removed), then handshake
\* or _connect goes on after its await; the completion callback is now due
LoopTaskRespond(outcome, interval, rejected) ==
    /\ connect_task.status = "sent"
    /\ connect_task' = [connect_task EXCEPT !.status = "done", !.result = outcome]
    /\ transport' =
          IF outcome.kind /= "response" THEN transport
          ELSE IF connect_task.kind = "handshake"
               THEN handshake(StoreAdvice(transport, interval), outcome)
               ELSE _connect([StoreAdvice(transport, interval) EXCEPT
                                 !.subscriptions = @ \ rejected], outcome)
    /\ finalized' = <<>>
    /\ ret' = NoRet
    /\ last_done' = LoopNoDone
    /\ UNCHANGED pc
    /\ responded' = <<outcome>>
    /\ LoopFrame

\* the completion callback _connect_done runs; a caller that awaits the first
\* task in connect() resumes right after it
LoopTaskDone ==
    /\ connect_task.status = "done"
    /\ LET result == connect_task.result
           done == _connect_done(transport.state, result)
           delay == ReconnectTimeout(result, transport.interval)
       IN  /\ transport' = [transport EXCEPT !.state = done.state]
           /\ connect_task' = IF done.started /= "none"
                              THEN LoopScheduled(done.started, delay,
                                                 Follows(connect_task.kind, result))
                              ELSE [connect_task EXCEPT !.status = "finished"]
           /\ last_done' = [kind |-> connect_task.kind, result |-> result,
                            before |-> transport.state, after |-> done.state,
                            started |-> done.started,
                            delay |-> IF done.started /= "none" THEN delay ELSE 0]
           /\ IF pc = "connect"
              THEN /\ pc' = "idle"
                   /\ ret' = [op |-> "connect",
                              raised |-> IF result.kind = "response" THEN "none"
                                         ELSE result.kind]
              ELSE /\ ret' = NoRet
                   /\ UNCHANGED pc
    /\ finalized' = <<>>
    /\ responded' = <<>>
    /\ LoopFrame

\* TransportBase.subscribe / unsubscribe up to the await of the response
LoopRequest(op, channel) ==
    /\ pc = "idle"
    /\ IF request_allowed(transport)
       THEN LET message == IF op = "subscribe" THEN SUBSCRIBE_MESSAGE
                           ELSE UNSUBSCRIBE_MESSAGE
                payload == <<[message EXCEPT !.subscription = channel]>>
            IN  /\ NextMessageId(payload, transport.message_id) <= MaxLoopId
                /\ finalized' = _finalize_payload(payload, transport.message_id,
                                                  transport.client_id,
                                                  transport.connection_type)
                /\ transport' = [transport EXCEPT
                                    !.message_id = NextMessageId(payload, @)]
                /\ pc' = op
                /\ ret' = NoRet
       ELSE /\ ret' = [op |-> op, raised |-> "TransportInvalidOperation"]
            /\ finalized' = <<>>
            /\ UNCHANGED <<transport, pc>>
    /\ last_done' = LoopNoDone
    /\ UNCHANGED connect_task
    /\ responded' = <<>>
    /\ LoopFrame

\* the response to the subscribe or unsubscribe request is consumed
LoopRequestResponse(op, channel, ok, interval) ==
    /\ pc = op
    /\ LET response_message ==
               [channel |-> IF op = "subscribe" THEN SUBSCRIBE ELSE UNSUBSCRIBE,
                id |-> "0", successful |-> ok, subscription |-> channel]
           t1 == StoreAdvice(transport, interval)
       IN  transport' = [t1 EXCEPT !.subscriptions =
                            _update_subscriptions(@, response_message)]
    /\ pc' = "idle"
    /\ ret' = [op |-> op, raised |-> "none"]
    /\ finalized' = <<>>
    /\ last_done' = LoopNoDone
    /\ UNCHANGED connect_task
    /\ responded' = <<Response(ok, Nil, Nil)>>
    /\ LoopFrame

\* the slip: the disconnect message is sent from every state
AlwaysSendDisconnect(st) == TRUE

\* TransportBase.disconnect, line 603: should_send_message
should_send_message(st) == st = CONNECTED

\* disconnect() after _stop_connect_task: the DISCONNECT message is finalised
\* and sent, or nothing is sent and the finally clause ends the call
LoopAfterStop(t, send) ==
    IF send
    THEN LET payload == <<DISCONNECT_MESSAGE>>
         IN  /\ NextMessageId(payload, t.message_id) <= MaxLoopId
             /\ finalized' = _finalize_payload(payload, t.message_id, t.client_id,
                                               t.connection_type)
             /\ transport' = [t EXCEPT !.message_id = NextMessageId(payload, @)]
             /\ pc' = "disconnect_send"
             /\ ret' = NoRet
    ELSE /\ finalized' = <<>>
         /\ transport' = [t EXCEPT !.state = DISCONNECTED]
         /\ pc' = "idle"
         /\ ret' = [op |-> "disconnect", raised |-> "none"]

\* TransportBase.disconnect up to its first await that suspends: the state is
\* DISCONNECTING; a task that is not done is cancelled and awaited; without such
\* a task the call goes straight on
LoopDisconnect ==
    /\ pc = "idle"
    /\ LET send == should_send_message(transport.state)
           t1 == [transport EXCEPT !.state = DISCONNECTING]
       IN  IF LoopPending(connect_task)
           THEN /\ connect_task' = [connect_task EXCEPT
                                       !.status = "cancelled",
                                       !.result = Raised("CancelledError")]
                /\ transport' = t1
                /\ pc' = IF send THEN "disconnect_stop_send" ELSE "disconnect_stop"
                /\ ret' = NoRet
                /\ finalized' = <<>>
           ELSE /\ LoopAfterStop(t1, send)
                /\ UNCHANGED connect_task
    /\ last_done' = LoopNoDone
    /\ responded' = <<>>
    /\ LoopFrame

\* the cancelled task ends: its callback finds a CancelledError (caught as an
\* Exception or, where it is none, raised out of the callback: either way the
\* state is left alone in DISCONNECTING and nothing is started), then
\* _stop_connect_task returns and disconnect() goes on
LoopStopped ==
    /\ pc \in {"disconnect_stop", "disconnect_stop_send"}
    /\ connect_task.status = "cancelled"
    /\ LET done == _connect_done(transport.state, connect_task.result)
       IN  /\ last_done' = [kind |-> connect_task.kind, result |-> connect_task.result,
                            before |-> transport.state, after |-> done.state,
                            started |-> done.started, delay |-> 0]
           /\ connect_task' = IF done.started /= "none"
                              THEN LoopScheduled(done.started, RECONNECT_TIMEOUT, "error")
                              ELSE [connect_task EXCEPT !.status = "finished"]
           /\ LoopAfterStop([transport EXCEPT !.state = done.state],
                            pc = "disconnect_stop_send")
    /\ responded' = <<>>
    /\ LoopFrame

\* the disconnect request ends: a response or a TransportError is swallowed, an
\* asyncio.TimeoutError leaves disconnect(); the finally clause sets DISCONNECTED
LoopDisconnected(outcome) ==
    /\ pc = "disconnect_send"
    /\ transport' = [transport EXCEPT !.state = DISCONNECTED]
    /\ pc' = "idle"
    /\ ret' = [op |-> "disconnect",
               raised |-> IF outcome.kind = "TimeoutError" THEN outcome.kind
                          ELSE "none"]
    /\ finalized' = <<>>
    /\ last_done' = LoopNoDone
    /\ UNCHANGED connect_task
    /\ responded' = <<>>
    /\ LoopFrame

\* what a request of the loop ends with: the responses with the advice values
\* that _follow_advice tells apart, and the exceptions
LoopOutcomes(cids) ==
    {o \in Outcomes(transport.connection_type, cids) : o.reconnect /= "other"}

LoopNext ==
    \/ \E types \in SeqsUpTo(ConnectionType, MaxTypes) : LoopHandshake(types)
    \/ \E outcome \in {o \in LoopOutcomes(ClientIds) : o.reconnect = Nil} :
          \E interval \in IntervalsOf(outcome.reconnect) :
             LoopHandshakeResponse(outcome, interval)
    \/ LoopConnect
    \/ \E order \in Orders(transport.subscriptions) : LoopTaskSend(order)
    \/ \E outcome \in LoopOutcomes(IF connect_task.kind = "handshake"
                                    THEN ClientIds ELSE {Nil}) :
          \E interval \in IntervalsOf(outcome.reconnect),
             rejected \in {{}} \cup
                          (IF connect_task.kind = "connect"
                              /\ transport.subscribe_on_connect
                           THEN {{c} : c \in transport.subscriptions} ELSE {}) :
             LoopTaskRespond(outcome, interval, rejected)
    \/ LoopTaskDone
    \/ \E op \in {"subscribe", "unsubscribe"}, channel \in LoopChannels :
          LoopRequest(op, channel)
    \/ \E op \in {"subscribe", "unsubscribe"}, channel \in LoopChannels,
          ok \in BOOLEAN, interval \in IntervalsOf(Nil) :
          LoopRequestResponse(op, channel, ok, interval)
    \/ LoopDisconnect
    \/ LoopStopped
    \/ \E outcome \in DisconnectOutcomes(transport.connection_type) :
          LoopDisconnected(outcome)

\* a websocket transport right after its construction (the long-polling
\* transport differs from it here only in never raising asyncio.TimeoutError)
InitLoop ==
    /\ PickIdle
    /\ XchgIdle
    /\ RecvIdle
    /\ SemIdle
    /\ WsIdle
    /\ SendIdle
    /\ LateIdle
    /\ closed = TRUE
    /\ transport = LoopTransport(WEBSOCKET)
    /\ negotiating = NoTransport
    /\ connect_task = LoopNoTask
    /\ pc = "idle"
    /\ sent = NoSent
    /\ ret = NoRet
    /\ last_done = LoopNoDone
    /\ first = NoFirst
    /\ closes = 0
    /\ abandoned = FALSE
    /\ finalized = <<>>
    /\ responded = <<>>

SpecLoop == InitLoop /\ [][LoopNext]_vars

(***************************************************************************)
(* Sending through the extensions as a specification: callers of one       *)
(* transport that each send a payload with _send_payload_with_auth (a      *)
(* handshake, a publish, or a connect with a resubscription), the          *)
(* extensions and the authentication extension the transport was built     *)
(* with, and a server that answers with any error field or not at all.     *)
(* hooks is the list of the calls the last step has made, in their order.  *)
(* A hook is run to its end in the step that calls it: a hook that         *)
(* suspends lets other callers run but keeps its place in the order.       *)
(***************************************************************************)
\* number of caller tasks that send on the transport at the same time
MaxSendCallers == 2
\* the message id counter stops here
MaxSendId == 4

SendCallers == 1..MaxSendCallers

\* http.HTTPStatus.UNAUTHORIZED and FORBIDDEN
UNAUTHORIZED == 401
FORBIDDEN == 403

\* the extensions a transport can be built with: lists of distinct extensions
ExtensionLists == {<<>>, <<"a">>, <<"b">>, <<"a", "b">>, <<"b", "a">>}

\* the error fields of the server, as the sequences of their characters
\* (Nil: the message has no error field)
E401 == <<"4", "0", "1", ":", ":", "x">>
E403 == <<"4", "0", "3", ":", ":", "x">>
E402 == <<"4", "0", "2", ":", ":", "x">>
E4010 == <<"4", "0", "1", "0", ":", ":">>
E40 == <<"4", "0">>
EX401 == <<"x", "4", "0", "1">>
ErrorFields == {<<Nil>>, E401, E403, E402, E4010, E40, EX401, <<>>}

\* the value of a decimal digit
DigitValue ==
    [c \in {"0", "1", "2", "3", "4", "5", "6", "7", "8", "9"} |->
        CASE c = "0" -> 0 [] c = "1" -> 1 [] c = "2" -> 2 [] c = "3" -> 3
          [] c = "4" -> 4 [] c = "5" -> 5 [] c = "6" -> 6 [] c = "7" -> 7
          [] c = "8" -> 8 [] c = "9" -> 9]

\* utils.get_error_code: the number of the three digits the field begins with,
\* <<>> where the code returns None
get_error_code(error_field) ==
    IF error_field = <<Nil>> THEN <<>>
    ELSE IF /\ Len(error_field) >= 3
            /\ \A i \in 1..3 : error_field[i] \in DOMAIN DigitValue
         THEN <<100 * DigitValue[error_field[1]] + 10 * DigitValue[error_field[2]]
                + DigitValue[error_field[3]]>>
         ELSE <<>>

\* the slip: only UNAUTHORIZED counts
UnauthorizedOnly(error_field) == get_error_code(error_field) = <<UNAUTHORIZED>>

\* utils.is_auth_error_message on a message with the given error field
is_auth_error_message(error_field) ==
    get_error_code(error_field) \in {<<UNAUTHORIZED>>, <<FORBIDDEN>>}

\* the slip: the authentication extension's hook runs last on the way in
IncomingAuthLast(has_auth, exts) ==
    [i \in 1..Len(exts) |-> <<exts[i], "incoming">>]
    \o (IF has_auth THEN <<<<"auth", "incoming">>>> ELSE <<>>)

\* TransportBase._process_outgoing_payload: the hooks it calls, in order
_process_outgoing_payload(has_auth, exts) ==
    [i \in 1..Len(exts) |-> <<exts[i], "outgoing">>]
    \o (IF has_auth THEN <<<<"auth", "outgoing">>>> ELSE <<>>)

\* TransportBase._process_incoming_payload: the hooks it calls, in order
_process_incoming_payload(has_auth, exts) ==
    (IF has_auth THEN <<<<"auth", "incoming">>>> ELSE <<>>)
    \o [i \in 1..Len(exts) |-> <<exts[i], "incoming">>]

\* the payload of an operation before it is finalised
SendPayload(op) ==
    IF op = "handshake"
    THEN <<[HANDSHAKE_MESSAGE EXCEPT !.supportedConnectionTypes = <<WEBSOCKET>>]>>
    ELSE IF op = "publish"
         THEN <<[PUBLISH_MESSAGE EXCEPT !.channel = FOO, !.data = "x"]>>
         ELSE <<CONNECT_MESSAGE, [SUBSCRIBE_MESSAGE EXCEPT !.subscription = FOO]>>

SendOps == {"handshake", "publish", "connect"}

IdleSend == [pc |-> "idle", op |-> "none", payload |-> <<>>, sends |-> 0,
             authenticated |-> 0]

\* what this specification leaves alone
SendFrame ==
    /\ UNCHANGED pickVars
    /\ UNCHANGED xchgVars
    /\ UNCHANGED clientVars
    /\ UNCHANGED <<recvVars, semVars, wsVars, lateVars>>

\* TransportBase._send_payload up to the await of _send_final_payload's
\* response: the payload is finalised, the outgoing hooks are called, the
\* payload is handed to the network
_send_payload(r, c, counter, before) ==
    /\ NextMessageId(c.payload, counter) <= MaxSendId
    /\ finalized' = _finalize_payload(c.payload, counter, "c1", WEBSOCKET)
    /\ send_message_id' = NextMessageId(c.payload, counter)
    /\ send_calls' = [send_calls EXCEPT
                         ![r] = [c EXCEPT !.pc = "sent",
                                          !.payload = finalized',
                                          !.sends = @ + 1]]
    /\ hooks' = before \o _process_outgoing_payload(auth_extension, extension_list)
                       \o <<<<"network", "send">>>>

\* a caller starts an operation: handshake() resets the counter first
SendStart(r, op) ==
    /\ send_calls[r].pc = "idle"
    /\ _send_payload(r, [IdleSend EXCEPT !.op = op, !.payload = SendPayload(op)],
                     IF op = "handshake" THEN 0 ELSE send_message_id, <<>>)
    /\ responded' = <<>>
    /\ UNCHANGED <<auth_extension, extension_list>>
    /\ SendFrame

\* the response payload arrives: the incoming hooks, then _consume_payload's
\* loop; _send_payload_with_auth then either returns the response or, after an
\* authentication error on a transport with an authentication extension,
\* awaits authenticate()
SendRespond(r, error_field) ==
    /\ send_calls[r].pc = "sent"
    /\ LET c == send_calls[r]
           incoming == _process_incoming_payload(auth_extension, extension_list)
                         \o <<<<"transport", "consume">>>>
       IN  IF /\ c.sends = 1
              /\ auth_extension
              /\ is_auth_error_message(error_field)
           THEN /\ hooks' = incoming \o <<<<"auth", "authenticate">>>>
                /\ send_calls' = [send_calls EXCEPT
                                     ![r] = [c EXCEPT !.pc = "authenticating",
                                                      !.authenticated = @ + 1]]
           ELSE /\ hooks' = incoming
                /\ send_calls' = [send_calls EXCEPT ![r] = [c EXCEPT !.pc = "returned"]]
    /\ finalized' = <<>>
    /\ responded' = <<[kind |-> "response", error |-> error_field, caller |-> r]>>
    /\ UNCHANGED <<send_message_id, auth_extension, extension_list>>
    /\ SendFrame

\* authenticate() has returned: _send_payload is called with the same payload
\* once more, and its result is the result of the call
SendResend(r) ==
    /\ send_calls[r].pc = "authenticating"
    /\ _send_payload(r, send_calls[r], send_message_id, <<>>)
    /\ responded' = <<>>
    /\ UNCHANGED <<auth_extension, extension_list>>
    /\ SendFrame

\* the request fails on the network: no payload, no hook, TransportError
SendError(r) ==
    /\ send_calls[r].pc = "sent"
    /\ send_calls' = [send_calls EXCEPT ![r].pc = "raised"]
    /\ hooks' = <<>>
    /\ finalized' = <<>>
    /\ responded' = <<[kind |-> "TransportError", error |-> <<Nil>>, caller |-> r]>>
    /\ UNCHANGED <<send_message_id, auth_extension, extension_list>>
    /\ SendFrame

\* the caller has its result and may send again
SendFinish(r) ==
    /\ send_calls[r].pc \in {"returned", "raised"}
    /\ send_calls' = [send_calls EXCEPT ![r] = IdleSend]
    /\ hooks' = <<>>
    /\ finalized' = <<>>
    /\ responded' = <<>>
    /\ UNCHANGED <<send_message_id, auth_extension, extension_list>>
    /\ SendFrame

SendNext ==
    \/ \E r \in SendCallers, op \in SendOps : SendStart(r, op)
    \/ \E r \in SendCallers, error_field \in ErrorFields : SendRespond(r, error_field)
    \/ \E r \in SendCallers : SendResend(r)
    \/ \E r \in SendCallers : SendError(r)
    \/ \E r \in SendCallers : SendFinish(r)

\* a transport built with any list of extensions, with or without an
\* authentication extension
InitSend ==
    /\ PickIdle
    /\ XchgIdle
    /\ ClientIdle
    /\ RecvIdle
    /\ SemIdle
    /\ WsIdle
    /\ LateIdle
    /\ finalized = <<>>
    /\ responded = <<>>
    /\ send_calls = [r \in SendCallers |-> IdleSend]
    /\ send_message_id = 0
    /\ auth_extension \in BOOLEAN
    /\ extension_list \in ExtensionLists
    /\ hooks = <<>>

SpecSend == InitSend /\ [][SendNext]_vars

(***************************************************************************)
(* Client._negotiate_transport as a specification: the provisional         *)
(* long-polling transport with the queue and the session it creates, the   *)
(* response of the handshake with its advice and the events it came with,  *)
(* and the transport of the negotiated type that replaces it.  A queue is  *)
(* the number of the open() call that created it, a session the number of  *)
(* the open() call whose handshake created it (0: None); the events of the *)
(* current queue are in incoming_queue.                                    *)
(***************************************************************************)
\* calls of open() explored
MaxOpens == 2

\* advice["reconnect"] of the handshake response (Nil: no advice)
NegAdvices == {Nil, "retry", "none"}

\* TransportBase.__init__ with the keyword arguments of create_transport
NegTransport(conn_type, queue, cid, advice, session) ==
    [connection_type |-> conn_type, incoming_queue |-> queue, client_id |-> cid,
     reconnect_advice |-> advice, http_session |-> session]

NoNegTransport == NegTransport(Nil, 0, Nil, Nil, 0)

\* TransportBase._close_http_session: the flags of the sessions afterwards
_close_http_session(t, closed_flags) ==
    IF t.http_session /= 0 /\ t.http_session \notin closed_flags
    THEN closed_flags \cup {t.http_session}
    ELSE closed_flags

\* the slip: the provisional transport keeps its session when it is closed
ReplaceLeavesSession(t, connection_type) ==
    [old |-> t,
     new |-> NegTransport(connection_type, t.incoming_queue, t.client_id,
                          t.reconnect_advice, t.http_session)]

\* Client._negotiate_transport, lines 221-246: the provisional transport as it
\* is closed and the transport that is returned
ReplaceTransport(t, connection_type) ==
    IF t.connection_type /= connection_type
    THEN [old |-> [t EXCEPT !.http_session = 0],
          new |-> NegTransport(connection_type, t.incoming_queue, t.client_id,
                               t.reconnect_advice, t.http_session)]
    ELSE [old |-> t, new |-> t]

\* what this specification leaves alone
NegFrame ==
    /\ UNCHANGED <<connection_types, pick_pc>>
    /\ UNCHANGED <<ttype, client_id, message_id, subscriptions, reconnect_advice,
                   max_pending_count, http_semaphore, call, pending_exhanges, rx,
                   next_n, next_p, emitted, done_payloads, correlated, received,
                   last_message, subs_before>>
    /\ UNCHANGED <<closed, connect_task, sent, last_done, first, closes, abandoned>>
    /\ UNCHANGED <<recvVars, semVars, wsVars, loopVars, sendVars>>

\* open() on a closed client up to the await of the handshake's response: the
\* queue and the provisional transport are created, the request creates the
\* session of the transport
NegOpen ==
    /\ pc = "idle"
    /\ opens < MaxOpens
    /\ opens' = opens + 1
    /\ created' = 1
    /\ incoming_queue' = <<>>
    /\ negotiating' = NegTransport(DEFAULT_CONNECTION_TYPE, opens', Nil, Nil, opens')
    /\ pc' = "open_handshake"
    /\ ret' = NoRet
    /\ supportedConnectionTypes' = <<>>
    /\ picked' = Nil
    /\ UNCHANGED <<transport, closed_sessions>>
    /\ NegFrame

\* the response of the handshake: _consume_payload stores its advice and
\* enqueues the events of the payload, handshake() stores the client id, and
\* _negotiate_transport verifies it, picks the type and replaces the transport
NegHandshakeResponse(ok, cid, advice, types, events) ==
    /\ pc = "open_handshake"
    /\ LET t0 == [negotiating EXCEPT
                     !.reconnect_advice = IF advice /= Nil THEN advice ELSE @]
           t1 == IF ok THEN [t0 EXCEPT !.client_id = cid] ELSE t0
           connection_type == _pick_connection_type(types, connection_types)
           r == ReplaceTransport(t1, connection_type)
       IN  /\ incoming_queue' = incoming_queue \o [i \in 1..events |-> "event"]
           /\ supportedConnectionTypes' = types
           /\ IF ~ok
              THEN /\ negotiating' = t1
                   /\ closed_sessions' = _close_http_session(t1, closed_sessions)
                   /\ picked' = Nil
                   /\ pc' = "idle"
                   /\ ret' = [op |-> "open", raised |-> "ServerError"]
                   /\ UNCHANGED <<transport, created>>
              ELSE /\ picked' = connection_type
                   /\ IF connection_type = Nil
                      THEN /\ negotiating' = t1
                           /\ closed_sessions' = _close_http_session(t1, closed_sessions)
                           /\ pc' = "idle"
                           /\ ret' = [op |-> "open", raised |-> "ClientError"]
                           /\ UNCHANGED <<transport, created>>
                      ELSE /\ negotiating' = r.old
                           /\ closed_sessions' =
                                  IF r.new /= r.old
                                  THEN _close_http_session(r.old, closed_sessions)
                                  ELSE closed_sessions
                           /\ created' = IF r.new /= r.old THEN created + 1 ELSE created
                           /\ transport' = r.new
                           /\ pc' = "open_connect"
                           /\ ret' = NoRet
    /\ UNCHANGED opens
    /\ NegFrame

\* the handshake fails on the network: the provisional transport is closed
NegHandshakeError ==
    /\ pc = "open_handshake"
    /\ negotiating' = negotiating
    /\ closed_sessions' = _close_http_session(negotiating, closed_sessions)
    /\ pc' = "idle"
    /\ ret' = [op |-> "open", raised |-> "TransportError"]
    /\ UNCHANGED <<transport, created, opens, incoming_queue,
                   supportedConnectionTypes, picked>>
    /\ NegFrame

\* the rest of open() and what the caller does until the next open(): a
\* close() that closes the transport, or none that does
NegFinish(closes_transport) ==
    /\ pc = "open_connect"
    /\ closed_sessions' = IF closes_transport
                          THEN _close_http_session(transport, closed_sessions)
                          ELSE closed_sessions
    /\ pc' = "idle"
    /\ ret' = NoRet
    /\ UNCHANGED <<transport, negotiating, created, opens, incoming_queue,
                   supportedConnectionTypes, picked>>
    /\ NegFrame

NegNext ==
    \/ NegOpen
    \/ \E ok \in BOOLEAN, cid \in ClientIds, advice \in NegAdvices,
          types \in SeqsUpTo(ServerTypeNames, MaxTypes), events \in 0..1 :
          NegHandshakeResponse(ok, cid, advice, types, events)
    \/ NegHandshakeError
    \/ \E closes_transport \in BOOLEAN : NegFinish(closes_transport)

InitNeg ==
    /\ connection_types \in SeqsUpTo(ConnectionType, MaxTypes)
    /\ supportedConnectionTypes = <<>>
    /\ picked = Nil
    /\ pick_pc = Nil
    /\ XchgIdle
    /\ closed = TRUE
    /\ transport = NoNegTransport
    /\ negotiating = NoNegTransport
    /\ connect_task = NoTask
    /\ pc = "idle"
    /\ sent = NoSent
    /\ ret = NoRet
    /\ last_done = NoDone
    /\ first = NoFirst
    /\ closes = 0
    /\ abandoned = FALSE
    /\ RecvIdle
    /\ SemIdle
    /\ WsIdle
    /\ LoopIdle
    /\ SendIdle
    /\ NegIdle

SpecNeg == InitNeg /\ [][NegNext]_vars

(***************************************************************************)
(* The exchange with a server that is free in what it sends: besides the   *)
(* replies, events and service messages of SpecXchg, a reply that carries  *)
(* data, a message of another channel with the id of an outstanding        *)
(* request, and a message with the channel and the id of an outstanding    *)
(* publish request but without a successful field.  (A message of          *)
(* /meta/subscribe or /meta/unsubscribe without a successful field makes   *)
(* _update_subscriptions raise KeyError and is left out.)                  *)
(***************************************************************************)
MatchKinds ==
    Kinds
    \cup {[kind |-> "echo", to |-> r, ok |-> TRUE] : r \in Outstanding}
    \cup {[kind |-> "other", to |-> r, ok |-> TRUE] : r \in Outstanding}
    \cup {[kind |-> "bare", to |-> r, ok |-> TRUE] :
            r \in {q \in Outstanding : call[q].message[1].channel = FOO}}

MatchShapes == UNION {[1..k -> MatchKinds] : k \in 1..MaxPayloadLen}

\* the reply to a request with the data of the request echoed
Echo(request, n, p) ==
    IF Has(request, "subscription")
    THEN [channel |-> request.channel, id |-> request.id, successful |-> TRUE,
          subscription |-> request.subscription, data |-> ToString(n),
          n |-> n, p |-> p]
    ELSE [channel |-> request.channel, id |-> request.id, successful |-> TRUE,
          data |-> ToString(n), n |-> n, p |-> p]

\* a response of the service channel that carries the id of the request
OtherChannel(request, n, p) ==
    [channel |-> SVC, id |-> request.id, successful |-> TRUE,
     data |-> ToString(n), n |-> n, p |-> p]

\* a message with the channel and the id of the request and no successful field
Bare(request, n, p) ==
    [channel |-> request.channel, id |-> request.id, data |-> ToString(n),
     n |-> n, p |-> p]

MatchStamp(shape, n0, p) ==
    [i \in 1..Len(shape) |->
        CASE shape[i].kind = "echo" ->
                Echo(call[shape[i].to].message[1], n0 + i - 1, p)
          [] shape[i].kind = "other" ->
                OtherChannel(call[shape[i].to].message[1], n0 + i - 1, p)
          [] shape[i].kind = "bare" ->
                Bare(call[shape[i].to].message[1], n0 + i - 1, p)
          [] OTHER -> Stamp(<<shape[i]>>, n0 + i - 1, p)[1]]

\* the HTTP response arrives, with any payload
MatchLpRespond(r, shape) ==
    /\ ttype = LONG_POLLING
    /\ call[r].pc = "posted"
    /\ next_n + Len(shape) - 1 <= MaxStamp
    /\ LET payload == MatchStamp(shape, next_n, next_p) IN
        /\ Emit(payload)
        /\ call' = [call EXCEPT ![r].pc = "consume", ![r].payload = payload,
                                ![r].idx = 1]
    /\ http_semaphore' = http_semaphore + 1
    /\ UNCHANGED <<ttype, client_id, message_id, subscriptions, reconnect_advice,
                   incoming_queue, max_pending_count, pending_exhanges, rx,
                   done_payloads, correlated, received, last_message, subs_before>>
    /\ UNCHANGED <<pickVars, clientVars, otherVars>>

\* _receive gets any payload from the socket and consumes it
MatchWsReceive(shape) ==
    /\ ttype = WEBSOCKET
    /\ rx.running
    /\ rx.payload = <<>>
    /\ next_n + Len(shape) - 1 <= MaxStamp
    /\ LET payload == MatchStamp(shape, next_n, next_p)
           st == _consume_payload(payload, 1, FALSE, <<>>, ConsumeState(<<>>))
       IN  /\ Emit(payload)
           /\ Consumed(st)
           /\ IF PutPending(st)
              THEN /\ rx' = [rx EXCEPT !.payload = payload, !.idx = st.idx,
                                       !.blocked = TRUE]
                   /\ UNCHANGED <<call, pending_exhanges, correlated, done_payloads>>
              ELSE WsRoundDone(payload, st)
    /\ UNCHANGED <<ttype, client_id, message_id, max_pending_count, http_semaphore,
                   received, subs_before>>
    /\ UNCHANGED <<pickVars, clientVars, otherVars>>

MatchNext ==
    \/ \E r \in Callers, message \in Requests : LpSend(r, message)
    \/ \E r \in Callers, shape \in MatchShapes : MatchLpRespond(r, shape)
    \/ \E r \in Callers : LpNetworkError(r)
    \/ \E r \in Callers : LpConsume(r)
    \/ \E r \in Callers, message \in Requests : WsSend(r, message)
    \/ \E shape \in MatchShapes : MatchWsReceive(shape)
    \/ WsResume
    \/ \E r \in Callers : WsReturn(r)
    \/ \E r \in Callers : Finish(r)
    \/ Receive

InitMatch == PickIdle /\ XchgInit /\ ClientIdle /\ OtherIdle

SpecMatch == InitMatch /\ [][MatchNext]_vars

(***************************************************************************)
(* The pending exchanges of one websocket transport as a specification:    *)
(* caller 1 is the background task, which sends a connect or, after the    *)
(* advice to do so, a handshake that resets the id counter; the other      *)
(* callers subscribe, unsubscribe and publish.  A payload is sent again     *)
(* with new ids after an authentication error, and with its old ids after  *)
(* the server has closed the socket.  The server and the receive task are  *)
(* those of SpecXchg.                                                      *)
(***************************************************************************)
\* the id counter stops here
MaxIdsId == 2

\* the caller that is the background task
IdsTask == 1

\* a caller whose payload has been written to the socket: sends counts the
\* calls of _send_payload, attempt the calls of _send_socket_payload
IdsCall(final, sends, attempt) ==
    [pc |-> "awaiting", message |-> <<final>>, payload |-> <<>>, idx |-> 0,
     blocked |-> FALSE, result |-> <<>>, future |-> "pending", outcome |-> <<>>,
     error |-> Nil, sends |-> sends, attempt |-> attempt]

\* WebSocketTransport._create_exhange_future: _pending_exhanges afterwards
_create_exhange_future(pend, id, r) == (id :> r) @@ pend

\* _send_payload and _send_socket_payload up to "await future"
IdsSend(r, message, counter, sends) ==
    /\ ttype = WEBSOCKET
    /\ counter < MaxIdsId
    /\ message_id' = counter + 1
    /\ LET final == _finalize_message(message, counter, client_id, ttype) IN
        /\ call' = [call EXCEPT ![r] = IdsCall(final, sends, 1)]
        /\ pending_exhanges' = _create_exhange_future(pending_exhanges, final.id, r)
    /\ rx' = [rx EXCEPT !.running = TRUE]
    /\ UNCHANGED <<ttype, client_id, subscriptions, reconnect_advice, incoming_queue,
                   max_pending_count, http_semaphore, next_n, next_p, emitted,
                   done_payloads, correlated, received, last_message, subs_before>>
    /\ UNCHANGED <<pickVars, clientVars, otherVars>>

\* the background task sends its connect, or its handshake after handshake()
\* has set the counter to 0
IdsTaskSend(kind) ==
    /\ call[IdsTask].pc = "idle"
    /\ IF kind = "handshake"
       THEN IdsSend(IdsTask, [HANDSHAKE_MESSAGE EXCEPT
                                 !.supportedConnectionTypes = <<WEBSOCKET>>], 0, 1)
       ELSE IdsSend(IdsTask, CONNECT_MESSAGE, message_id, 1)

\* a caller subscribes, unsubscribes or publishes; open() has returned, so
\* the first connect of the transport has been sent
IdsUserSend(r, message) ==
    /\ r /= IdsTask
    /\ call[r].pc = "idle"
    /\ message_id > 0
    /\ IdsSend(r, message, message_id, 1)

\* the response was an authentication error: after authenticate() the payload
\* is finalised and sent once more
IdsAuthResend(r) ==
    /\ call[r].pc = "returned"
    /\ call[r].sends = 1
    /\ IdsSend(r, call[r].message[1], message_id, 2)

\* the server closes the socket: _receive raises TransportConnectionClosed,
\* _set_exchange_errors rejects the futures of _pending_exhanges and clears
\* it, the receive task ends
IdsCloseFrame ==
    /\ ttype = WEBSOCKET
    /\ rx.running
    /\ rx.payload = <<>>
    /\ DOMAIN pending_exhanges /= {}
    /\ call' = [r \in DOMAIN call |->
                   IF (\E id \in DOMAIN pending_exhanges : pending_exhanges[id] = r)
                      /\ call[r].future = "pending"
                   THEN [call[r] EXCEPT !.future = "exception",
                                        !.error = "TransportConnectionClosed"]
                   ELSE call[r]]
    /\ pending_exhanges' = <<>>
    /\ rx' = IdleRx
    /\ UNCHANGED <<ttype, client_id, message_id, subscriptions, reconnect_advice,
                   incoming_queue, max_pending_count, http_semaphore, next_n, next_p,
                   emitted, done_payloads, correlated, received, last_message,
                   subs_before>>
    /\ UNCHANGED <<pickVars, clientVars, otherVars>>

\* _send_final_payload catches TransportConnectionClosed once and sends the
\* payload as it is on a new socket; the second time the error is raised
IdsClosedResend(r) ==
    /\ ttype = WEBSOCKET
    /\ call[r].pc = "awaiting"
    /\ call[r].future = "exception"
    /\ IF MayRetry(call[r].attempt)
       THEN /\ call' = [call EXCEPT ![r].future = "pending", ![r].error = Nil,
                                    ![r].attempt = @ + 1]
            /\ pending_exhanges' =
                   _create_exhange_future(pending_exhanges, call[r].message[1].id, r)
            /\ rx' = [rx EXCEPT !.running = TRUE]
       ELSE /\ call' = [call EXCEPT ![r].pc = "raised"]
            /\ UNCHANGED <<pending_exhanges, rx>>
    /\ UNCHANGED <<ttype, client_id, message_id, subscriptions, reconnect_advice,
                   incoming_queue, max_pending_count, http_semaphore, next_n, next_p,
                   emitted, done_payloads, correlated, received, last_message,
                   subs_before>>
    /\ UNCHANGED <<pickVars, clientVars, otherVars>>

\* the server of this specification answers requests, one reply in a payload
IdsShapes == {shape \in Shapes : Len(shape) = 1 /\ shape[1].kind = "reply"}

IdsNext ==
    \/ \E kind \in {"connect", "handshake"} : IdsTaskSend(kind)
    \/ \E r \in Callers, message \in Requests : IdsUserSend(r, message)
    \/ \E r \in Callers : IdsAuthResend(r)
    \/ IdsCloseFrame
    \/ \E r \in Callers : IdsClosedResend(r)
    \/ \E shape \in IdsShapes : WsReceive(shape)
    \/ \E r \in Callers : WsReturn(r)
    \/ \E r \in Callers : Finish(r)

InitIds == PickIdle /\ XchgInit /\ ttype = WEBSOCKET /\ ClientIdle /\ OtherIdle

SpecIds == InitIds /\ [][IdsNext]_vars

\* C3: the negotiated type is the member of the intersection of the caller's
\* and the server's lists that comes first in the caller's list, whatever the
\* order of the server's list and whatever unknown names it holds; with an
\* empty intersection nothing is picked.  Caller [A, B], server [B, C] give B.
C3_PickIsFirstPreferenceSupported ==
    pick_pc = "returned" =>
        LET common == {i \in 1..Len(connection_types) :
                          \E j \in 1..Len(supportedConnectionTypes) :
                              supportedConnectionTypes[j] = connection_types[i]}
        IN  /\ (common = {}) <=> (picked = Nil)
            /\ common /= {} =>
                  \E i \in common : /\ picked = connection_types[i]
                                    /\ \A k \in common : i <= k
            /\ (/\ connection_types = <<WEBSOCKET, LONG_POLLING>>
                /\ supportedConnectionTypes = <<LONG_POLLING, CALLBACK_POLLING>>)
                  => picked = LONG_POLLING

\* the two lists share both types in opposite orders and the caller's first wins
C3_Witness ==
    /\ pick_pc = "returned"
    /\ connection_types = <<WEBSOCKET, LONG_POLLING>>
    /\ supportedConnectionTypes = <<LONG_POLLING, WEBSOCKET>>
    /\ picked = WEBSOCKET

(***************************************************************************)
(* Correlation and delivery (SpecXchg)                                     *)
(***************************************************************************)
\* what receive() has handed out followed by what it will hand out next
Delivered == received \o incoming_queue

\* the messages of a payload that carry the channel and the id of a request
\* and a successful field
Answers(payload, request) ==
    {i \in 1..Len(payload) :
        /\ payload[i].channel = request.channel
        /\ Get(payload[i], "id") = request.id
        /\ Has(payload[i], "successful")}

\* C1: with distinct ids outstanding, what a send call gets back is a message
\* the server sent that carries the id of the call's own request, and so not
\* the id of any other request in flight, whatever the order of the replies
\* and their grouping into payloads; a long-polling call ends without a
\* response only if its payload holds no answer to it.
C1_ResponseCarriesOwnId ==
    \A r \in Callers :
        /\ call[r].outcome /= <<>> =>
              /\ call[r].outcome[1] \in emitted
              /\ call[r].outcome[1].id = call[r].message[1].id
              /\ \A q \in Callers \ {r} :
                    call[q].message /= <<>> =>
                        call[r].outcome[1].id /= call[q].message[1].id
        /\ (ttype = LONG_POLLING /\ call[r].pc = "raised" /\ call[r].payload /= <<>>)
              => Answers(call[r].payload, call[r].message[1]) = {}

\* two requests in flight on the websocket are answered in one payload, the
\* later request first, and each caller holds its own reply
C1_Witness ==
    /\ ttype = WEBSOCKET
    /\ call[1].pc = "returned" /\ call[2].pc = "returned"
    /\ call[1].message[1].id = "0" /\ call[2].message[1].id = "1"
    /\ call[1].outcome[1].p = call[2].outcome[1].p
    /\ call[2].outcome[1].n < call[1].outcome[1].n

\* the messages of the finished payloads that were not handed back as replies
NotCorrelated == {m \in emitted : m.p \in done_payloads /\ m.n \notin correlated}

Occurrences(s, m) == Cardinality({i \in 1..Len(s) : s[i] = m})

Suspended ==
    {r \in DOMAIN call : call[r].blocked} \cup (IF rx.blocked THEN {0} ELSE {})

\* how far a consumer has come with its payload
Progress(c, r, x) == IF r = 0 THEN x.idx ELSE c[r].idx

\* C9: with a positive max pending count N the queue never holds more than N
\* messages; a producer suspends only on a queue that holds N messages, and a
\* suspended producer goes on only after a receive() has taken a message; with
\* N <= 0 no producer is ever suspended.
C9_Backpressure ==
    /\ [](max_pending_count > 0 => Len(incoming_queue) <= max_pending_count)
    /\ [](Suspended /= {} => max_pending_count > 0)
    /\ [][/\ \A r \in Suspended' \ Suspended :
                Len(incoming_queue') = max_pending_count
          /\ \A r \in Suspended :
                Progress(call', r, rx') /= Progress(call, r, rx)
                    => Len(incoming_queue) < max_pending_count]_vars

\* max pending count 1: the first event is in the queue, no receive() has been
\* called, and the receive task is suspended with the second event
C9_Witness ==
    /\ max_pending_count = 1
    /\ Len(incoming_queue) = 1
    /\ received = <<>>
    /\ rx.blocked
    /\ is_event_message(rx.payload[rx.idx])

(***************************************************************************)
(* Subscriptions (SpecSubs)                                                *)
(***************************************************************************)
\* C5: right after a successful subscribe response for X the set contains X;
\* right after a failed unsubscribe response for X a channel X that was in
\* the set is still in it; right after a successful unsubscribe response for
\* X the set does not contain X.
C5_SubscriptionSet ==
    last_message /= <<>> =>
        LET m == last_message[1] IN
            /\ (m.channel = SUBSCRIBE /\ m.successful)
                  => m.subscription \in subscriptions
            /\ (m.channel = UNSUBSCRIBE /\ ~m.successful /\ Has(m, "subscription")
                    /\ m.subscription \in subs_before)
                  => m.subscription \in subscriptions
            /\ (m.channel = UNSUBSCRIBE /\ m.successful)
                  => m.subscription \notin subscriptions

\* a failed unsubscribe response for "/foo" was processed while "/foo" and
\* "/bar" were subscribed
C5_Witness ==
    /\ last_message /= <<>>
    /\ last_message[1].channel = UNSUBSCRIBE
    /\ ~last_message[1].successful
    /\ Has(last_message[1], "subscription")
    /\ last_message[1].subscription = FOO
    /\ subs_before = {FOO, BAR}
    /\ subscriptions = {FOO, BAR}

(***************************************************************************)
(* The client facade and the connection state machine (Spec)               *)
(***************************************************************************)
\* C4: when the handshake of open() has been accepted and the caller's list and
\* the list in the handshake response share no type, open() raises ClientError
\* in that very step: nothing is picked, the handshake is the only request
\* sent (no connect), the provisional long-polling transport is closed and
\* was never connected, and the client stays closed.  The provisional
\* transport's own type is not used even when the server supports it.
C4_DisjointListsFailOpen ==
    (/\ pick_pc = "returned"
     /\ Range(connection_types) \cap Range(supportedConnectionTypes) = {})
        => /\ first.handshake = "ok"
           /\ ret = [op |-> "open", raised |-> "ClientError"]
           /\ picked = Nil
           /\ sent = [handshake |-> 1, connect |-> 0, disconnect |-> 0, request |-> 0]
           /\ negotiating.connection_type = DEFAULT_CONNECTION_TYPE
           /\ negotiating.http_session = "closed"
           /\ negotiating.state = DISCONNECTED
           /\ pc = "idle"
           /\ closed

\* the caller wants the websocket only, the server offers long-polling (the
\* provisional transport's type) and an unknown type: open() has failed
C4_Witness ==
    /\ pick_pc = "returned"
    /\ connection_types = <<WEBSOCKET>>
    /\ supportedConnectionTypes = <<LONG_POLLING, CALLBACK_POLLING>>
    /\ ret = [op |-> "open", raised |-> "ClientError"]
    /\ negotiating.http_session = "closed"
    /\ closed

\* the callback that ran in the last step consumed a response that was not successful
FailedResponse ==
    /\ last_done.kind /= "none"
    /\ last_done.result.kind = "response"
    /\ ~last_done.result.successful

\* C6: when a connect task completes with a response that is not successful
\* and carries the advice reconnect = "retry", the completion callback starts
\* exactly one task, a connect, whatever the state of the transport: the
\* task slot holds one scheduled connect task, never none.
C6_RetrySchedulesOneConnect ==
    (/\ FailedResponse
     /\ last_done.kind = "connect"
     /\ last_done.result.reconnect = "retry")
        => /\ last_done.started = "connect"
           /\ connect_task = Scheduled("connect")

\* a failed connect with advice retry has just been followed by a new connect task
C6_Witness ==
    /\ FailedResponse
    /\ last_done.kind = "connect"
    /\ last_done.result.reconnect = "retry"
    /\ last_done.started = "connect"
    /\ connect_task.status = "scheduled"

C8_CloseTwice ==
    ret.op = "close"
        => /\ ret.raised = "none"
           /\ closed
           /\ (transport.connection_type /= Nil => transport.state = DISCONNECTED)
           /\ (closes = 2 => sent = NoSent)

\* C10: open() returns without an error exactly when the server accepted both
\* the handshake and the first connect; when open() raises because of the
\* server or the network the client is closed; and closed turns false only in
\* the step in which such an open() returns.
C10_OpenOnlyAfterBothVerified ==
    /\ [](ret.op = "open"
            => ((ret.raised = "none")
                    <=> (first.handshake = "ok" /\ first.connect = "ok")))
    /\ []((ret.op = "open" /\ ret.raised \notin {"none", "ClientInvalidOperation"})
            => closed)
    /\ [][(closed /\ ~closed')
            => /\ ret'.op = "open"
               /\ ret'.raised = "none"
               /\ first'.handshake = "ok"
               /\ first'.connect = "ok"]_vars

\* the handshake was accepted, the first connect was rejected: open() raised
\* ServerError and the client is closed
C10_Witness ==
    /\ ret = [op |-> "open", raised |-> "ServerError"]
    /\ first = [handshake |-> "ok", connect |-> "rejected"]
    /\ closed

\* C11: an operation that is invalid in the client's current state fails at
\* once with ClientInvalidOperation, sends nothing and changes neither the
\* client nor the transport: open() on an open client never starts a
\* handshake; subscribe(), unsubscribe() and publish() on a closed client never
\* send a request or start a close; the step that raises leaves closed,
\* transport and connect task as they were.
C11_InvalidOperationFailsAtOnce ==
    [][/\ (pc = "idle" /\ ~closed)
            => /\ pc' /= "open_handshake"
               /\ sent'.handshake = 0
               /\ (ret'.op = "open" => ret'.raised = "ClientInvalidOperation")
       /\ (pc = "idle" /\ closed)
            => /\ \A op \in RequestOps : pc' \notin {SendingPc[op], ClosingPc[op]}
               /\ sent'.request = 0
               /\ (ret'.op \in RequestOps => ret'.raised = "ClientInvalidOperation")
       /\ (ret' /= ret /\ ret'.raised = "ClientInvalidOperation")
            => /\ pc' = "idle"
               /\ sent' = NoSent
               /\ UNCHANGED <<closed, transport, connect_task>>]_vars

\* a request was refused on a client that was open before and is closed now
C11_Witness ==
    /\ ret.raised = "ClientInvalidOperation"
    /\ ret.op \in RequestOps
    /\ closed
    /\ transport.connection_type /= Nil

\* the stamps of the messages of a sequence
Stamps(messages) == [i \in 1..Len(messages) |-> messages[i].n]

C13_ServerDisconnectClosesThenRaises ==
    [][/\ (recv_pc = "waiting" /\ recv_pc' = "idle" /\ ~closed
                /\ transport.state = SERVER_DISCONNECTED /\ get_task = <<>>)
            => /\ closed'
               /\ transport'.state = DISCONNECTED
               /\ ret' = [op |-> "receive", raised |-> "ServerError"]
       /\ (pc = "idle" /\ recv_pc = "idle" /\ ~closed
                /\ transport.state = SERVER_DISCONNECTED /\ ret'.op \in RequestOps)
            => /\ closed'
               /\ transport'.state = DISCONNECTED
               /\ ret'.raised = "ServerError"
       /\ (~closed /\ transport.state = SERVER_DISCONNECTED /\ recv_pc = "waiting")
            => server_disconnected_task]_vars

\* a receive() on an empty queue was ended by the server's disconnect
C13_Witness ==
    /\ ret = [op |-> "receive", raised |-> "ServerError"]
    /\ closed
    /\ transport.state = DISCONNECTED
    /\ incoming_queue = <<>>
    /\ state_events = {DISCONNECTED}

\* C14: the asynchronous iterator ends without error only when the client is
\* closed and the queue is empty (receive() raised ClientInvalidOperation);
\* a ServerError or a TransportTimeoutError of receive() leaves the
\* iteration as that error, and a message keeps it running.
C14_IteratorEndsOnlyWhenClosedAndEmpty ==
    [][/\ (iteration = "running" /\ iteration' = "ended")
            => /\ closed
               /\ incoming_queue = <<>>
               /\ ret' = [op |-> "receive", raised |-> "ClientInvalidOperation"]
       /\ (iteration = "running" /\ ret'.op = "receive"
                /\ ret'.raised \in {"ServerError", "TransportTimeoutError"})
            => iteration' = "failed"
       /\ (iteration = "running" /\ ret'.op = "receive" /\ ret'.raised = "none")
            => iteration' = "running"]_vars

\* an iteration that handed out messages has ended on the closed, drained client
C14_Witness ==
    /\ iteration = "ended"
    /\ ret = [op |-> "receive", raised |-> "ClientInvalidOperation"]
    /\ received /= <<>>
    /\ closed

\* C15: a receive() that waits on an empty queue fails with
\* TransportTimeoutError when the transport has entered CONNECTING and the
\* connection timeout runs out before CONNECTED comes back: the timed wait is
\* started by the entry into CONNECTING, runs only while the state stays
\* CONNECTING, and a return to CONNECTED ends it and makes the task wait for
\* the next CONNECTING; the error is raised only after the timed wait ran out
\* with no message and no server disconnect, so never while the transport
\* has stayed CONNECTED.
C15_TimeoutOnlyWhileConnecting ==
    /\ [](timeout_task = "armed"
            => transport.state = CONNECTING /\ recv_pc = "waiting"
                    /\ connection_timeout /= 0)
    /\ [][/\ (timeout_task' = "expired" /\ timeout_task /= "expired")
                => timeout_task = "armed" /\ transport.state = CONNECTING
          /\ (recv_pc = "waiting" /\ timeout_task = "wait_connecting"
                    /\ transport.state /= CONNECTING /\ transport'.state = CONNECTING)
                => timeout_task' = "armed"
          /\ (timeout_task = "armed" /\ transport'.state /= CONNECTING)
                => timeout_task' = "wait_connecting"
          /\ (recv_pc = "waiting" /\ recv_pc' = "idle")
                => (ret'.raised = "TransportTimeoutError"
                        <=> /\ timeout_task = "expired"
                            /\ get_task = <<>>
                            /\ ~server_disconnected_task)]_vars

\* a receive() has timed out on a transport that is still CONNECTING
C15_Witness ==
    /\ ret = [op |-> "receive", raised |-> "TransportTimeoutError"]
    /\ transport.state = CONNECTING
    /\ ~closed
    /\ incoming_queue = <<>>

\* C16: in every state of a transport, the state right after construction
\* included, exactly the event of the current state is set, so that
\* wait_for_state(s) returns at once when the state is s.  (Fails: the
\* constructor assigns DISCONNECTED over the default DISCONNECTED, which
\* sets no event.)
C16_ExactlyTheCurrentStateIsSignalled ==
    transport.connection_type /= Nil => state_events = {transport.state}

C18_CloseRejectsOutstandingFutures ==
    ws_close_pc = "closed"
        => \A r \in DOMAIN outstanding :
                outstanding[r] \in {"TransportConnectionClosed", "result"}

\* C19: a CLOSE frame rejects every pending exchange with
\* TransportConnectionClosed and empties the map; the caller that meets the
\* error gets a socket that is not closed from the factory (a new one if the
\* factory's socket is closed) and writes the same payload once more, and a second TransportConnectionClosed is raised to it: no payload
\* is written more than twice, and only a connection-closed first send is
\* followed by a second.
C19_CloseFrameRejectsAndOneResend ==
    /\ [][(ws_close_pc /= "cancelling" /\ receive_task.status = "running"
                /\ receive_task'.status = "done")
            => /\ pending_exhanges' = <<>>
               /\ \A r \in WsCallers :
                    (ws_calls[r].future = "pending" /\ r \in DOMAIN pending_exhanges)
                        => ws_calls'[r].future = "TransportConnectionClosed"]_vars
    /\ [][\A r \in WsCallers :
            /\ (Len(ws_calls'[r].written) = 2 /\ Len(ws_calls[r].written) = 1)
                    => /\ ws_calls[r].future = "TransportConnectionClosed"
                          \/ ws_calls[r].pc = "entering"
                       /\ ws_calls'[r].attempt = 2
                       /\ ws_calls'[r].socket \notin ws_closed_sockets
                       /\ ws_calls'[r].written[2] = ws_calls[r].written[1]
            /\ (ws_calls[r].pc = "awaiting" /\ ws_calls[r].attempt = 1
                    /\ ws_calls[r].future = "TransportConnectionClosed"
                    /\ ws_calls'[r] /= ws_calls[r])
                    => /\ ws_calls'[r].attempt = 2
                       /\ ws_calls'[r].pc \in {"entering", "awaiting", "raised"}
                       /\ ws_calls'[r].pc = "raised"
                            => ws_calls'[r].error = "TransportError"
            /\ (ws_calls[r].pc = "awaiting" /\ ws_calls[r].attempt = 2
                    /\ ws_calls[r].future = "TransportConnectionClosed"
                    /\ ws_calls'[r] /= ws_calls[r])
                    => /\ ws_calls'[r].pc = "raised"
                       /\ ws_calls'[r].error = "TransportConnectionClosed"
                       /\ ws_calls'[r].written = ws_calls[r].written]_vars
    /\ [](\A r \in DOMAIN ws_calls : Len(ws_calls[r].written) <= 2)

\* a resend met a second CLOSE frame and the error reached the caller
C19_Witness ==
    \E r \in DOMAIN ws_calls :
        /\ ws_calls[r].pc = "raised"
        /\ ws_calls[r].error = "TransportConnectionClosed"
        /\ Len(ws_calls[r].written) = 2
        /\ ws_calls[r].attempt = 2

\* C20: the transport guards its operations by state: connect() is accepted
\* exactly with a client id that is not empty and in DISCONNECTED or
\* SERVER_DISCONNECTED (it then goes CONNECTING and starts the connect task);
\* subscribe(), unsubscribe() and publish() are accepted exactly in
\* CONNECTING or CONNECTED; a refused operation raises
\* TransportInvalidOperation, sends nothing, starts no task and leaves the
\* state as it was.
C20_OperationsGuardedByState ==
    [][/\ ret'.op = "connect"
            => /\ ret'.raised \in {"accepted", "TransportInvalidOperation"}
               /\ ret'.raised = "accepted"
                    <=> /\ transport.client_id \notin {Nil, ""}
                        /\ transport.state \in {DISCONNECTED, SERVER_DISCONNECTED}
               /\ ret'.raised = "accepted"
                    => /\ transport'.state = CONNECTING
                       /\ connect_task'.status = "sent"
                       /\ sent'.connect = 1
       /\ ret'.op \in RequestOps
            => /\ ret'.raised \in {"accepted", "TransportInvalidOperation"}
               /\ ret'.raised = "accepted"
                    <=> transport.state \in {CONNECTING, CONNECTED}
               /\ ret'.raised = "accepted" => sent'.request = 1
       /\ ret'.raised = "TransportInvalidOperation"
            => /\ sent' = NoSent
               /\ UNCHANGED <<transport, connect_task>>]_vars

\* connect() was refused for an empty client id in a state that would allow it
C20_Witness ==
    /\ ret = [op |-> "connect", raised |-> "TransportInvalidOperation"]
    /\ transport.client_id = ""
    /\ transport.state = DISCONNECTED
    /\ transport.subscribe_on_connect

\* C21: disconnect() first sets DISCONNECTING, then cancels a connect task that
\* is not done and waits for it (the callback of the cancelled task sees
\* DISCONNECTING and starts nothing), then sends the DISCONNECT message exactly
\* when the state was CONNECTED at the call, and returns with the state
\* DISCONNECTED whether the message was answered, failed or was not sent.
C21_DisconnectSequence ==
    [][/\ (pc = "idle" /\ pc' \in {"disconnect_stop", "disconnect_stop_send"})
            => /\ connect_task.status \in {"scheduled", "sent"}
               /\ connect_task'.status = "cancelled"
               /\ transport'.state = DISCONNECTING
       /\ (pc = "idle" /\ pc' \in {"disconnect_stop_send", "disconnect_send"})
            => transport.state = CONNECTED
       /\ (pc = "idle" /\ (pc' = "disconnect_stop" \/ ret'.op = "disconnect"))
            => transport.state /= CONNECTED
       /\ pc \in {"disconnect_stop", "disconnect_stop_send"}
            => /\ transport.state = DISCONNECTING
               /\ last_done'.before = DISCONNECTING
               /\ last_done'.started = "none"
               /\ connect_task'.status = "finished"
               /\ pc = "disconnect_stop_send" <=> pc' = "disconnect_send"
       /\ (pc /= "disconnect_send" /\ pc' = "disconnect_send")
            => /\ Len(finalized') = 1
               /\ finalized'[1].channel = DISCONNECT
               /\ transport'.state = DISCONNECTING
       /\ (pc /= "disconnect_send" /\ ret'.op = "disconnect") => finalized' = <<>>
       /\ ret'.op = "disconnect" => transport'.state = DISCONNECTED]_vars

\* the connect task was cancelled, its callback has run and the DISCONNECT
\* message is on its way
C21_Witness ==
    /\ pc = "disconnect_send"
    /\ connect_task.status = "finished"
    /\ connect_task.result.kind = "CancelledError"
    /\ Len(finalized) = 1
    /\ finalized[1].channel = DISCONNECT

\* C22: when the callback of a connect or handshake task finds a successful
\* response, the state becomes CONNECTED and exactly one operation is scheduled
\* (a connect when the advice says retry or has no reconnect field); but when
\* the state is DISCONNECTING at that moment, nothing is scheduled.
C22_SuccessSchedulesOneUnlessDisconnecting ==
    [][(/\ last_done'.kind /= "none"
        /\ last_done'.result.kind = "response"
        /\ last_done'.result.successful)
          => IF last_done'.before = DISCONNECTING
             THEN /\ last_done'.started = "none"
                  /\ connect_task'.status = "finished"
             ELSE /\ last_done'.after = CONNECTED
                  /\ last_done'.started \in {"connect", "handshake"}
                  /\ connect_task'.kind = last_done'.started
                  /\ connect_task'.status = "scheduled"
                  /\ last_done'.result.reconnect \in {Nil, "retry"}
                        => last_done'.started = "connect"]_vars

\* C23: when the callback of a connect or handshake task finds a network error
\* (a TransportError, or the websocket's asyncio.TimeoutError), the error goes
\* to nobody but a caller that awaits the first task in connect(); outside
\* DISCONNECTING the state becomes CONNECTING and one connect is scheduled with
\* the transport's fixed reconnection timeout, whatever interval the server
\* has advised; in DISCONNECTING the state is kept and nothing is scheduled.
C23_NetworkErrorRetriesWithFixedDelay ==
    [][(/\ last_done'.kind /= "none"
        /\ last_done'.result.kind \in {"TransportError", "TimeoutError"})
          => /\ IF last_done'.before = DISCONNECTING
                THEN /\ last_done'.after = DISCONNECTING
                     /\ last_done'.started = "none"
                     /\ connect_task'.status = "finished"
                ELSE /\ last_done'.after = CONNECTING
                     /\ transport'.state = CONNECTING
                     /\ last_done'.started = "connect"
                     /\ connect_task' =
                           LoopScheduled("connect", RECONNECT_TIMEOUT, "error")
             /\ pc /= "connect" => (pc' = pc /\ ret' = NoRet)
             /\ pc = "connect" => ret' = [op |-> "connect",
                                         raised |-> last_done'.result.kind]]_vars

\* a subscribe request is in flight, the server has advised an interval of 5,
\* and a failed background task has just been followed by a connect after 1
C23_Witness ==
    /\ last_done.result.kind = "TransportError"
    /\ last_done.started = "connect"
    /\ connect_task = LoopScheduled("connect", RECONNECT_TIMEOUT, "error")
    /\ transport.interval = 5
    /\ transport.state = CONNECTING
    /\ pc = "subscribe"

C25_Handshake ==
    [][/\ (finalized' /= <<>> /\ finalized'[1].channel = HANDSHAKE)
            => /\ Len(finalized') = 1
               /\ transport.connection_type
                     \in Range(finalized'[1].supportedConnectionTypes)
               /\ pc' = "handshake" /\ pc = "idle"
                     => \E types \in SeqsUpTo(ConnectionType, MaxTypes) :
                           /\ Range(types) \subseteq
                                 Range(finalized'[1].supportedConnectionTypes)
                           /\ Len(finalized'[1].supportedConnectionTypes)
                                 <= Len(types) + 1
       /\ (/\ responded' /= <<>>
           /\ responded'[1].kind = "response"
           /\ \/ pc = "handshake" /\ pc' = "idle"
              \/ /\ connect_task.kind = "handshake"
                 /\ connect_task.status = "sent"
                 /\ connect_task'.status = "done")
            => IF responded'[1].successful
               THEN /\ transport'.client_id = responded'[1].clientId
                    /\ transport'.subscribe_on_connect
               ELSE /\ transport'.client_id = transport.client_id
                    /\ transport'.subscribe_on_connect
                          = transport.subscribe_on_connect]_vars

\* a handshake of the caller was rejected after a successful connect: the
\* client id is still there and the flag is still cleared
C25_Witness ==
    /\ ret = [op |-> "handshake", raised |-> "none"]
    /\ responded /= <<>>
    /\ responded[1].kind = "response"
    /\ ~responded[1].successful
    /\ responded[1].clientId = Nil
    /\ transport.client_id = "c1"
    /\ ~transport.subscribe_on_connect
    /\ transport.state = CONNECTED

\* one SUBSCRIBE message for each channel of the set, after the CONNECT message
ConnectWithSubscriptions(payload, channels) ==
    /\ Len(payload) = 1 + Cardinality(channels)
    /\ payload[1].channel = CONNECT
    /\ \A i \in 2..Len(payload) :
          /\ payload[i].channel = SUBSCRIBE
          /\ payload[i].subscription \in channels
    /\ \A c \in channels :
          Cardinality({i \in 2..Len(payload) : payload[i].subscription = c}) = 1

\* C26: a handshake of the background loop leaves the subscription set as it
\* is, and the connect that follows its success sends the CONNECT message
\* followed by exactly one SUBSCRIBE message for each channel that is in the
\* set when the payload is built.
C26_ResubscribeAfterHandshake ==
    [][/\ (/\ connect_task.kind = "handshake"
           /\ connect_task.status = "sent"
           /\ connect_task'.status = "done")
            => transport'.subscriptions = transport.subscriptions
       /\ (/\ connect_task.kind = "connect"
           /\ connect_task.follows = "handshake"
           /\ connect_task.status = "scheduled"
           /\ connect_task'.status = "sent")
            => ConnectWithSubscriptions(finalized', transport.subscriptions)]_vars

\* the connect after a handshake of the loop is on its way with both channels
C26_Witness ==
    /\ connect_task.kind = "connect"
    /\ connect_task.follows = "handshake"
    /\ connect_task.status = "sent"
    /\ transport.subscriptions = {FOO, BAR}
    /\ Len(finalized) = 3
    /\ finalized[2].channel = SUBSCRIBE
    /\ finalized[3].channel = SUBSCRIBE
    /\ pc = "idle"

\* C27: a connect response with successful = true clears the resubscribe flag
\* and one with successful = false sets it; nothing else changes the flag but
\* a successful handshake response, which sets it; and a connect payload
\* carries the SUBSCRIBE messages (one for each subscribed channel) exactly
\* when the flag is set.  So the connects after a successful connect carry no
\* SUBSCRIBE message until a handshake succeeds, and the connect retried after
\* a rejected connect carries them again.
C27_ResubscribeFlag ==
    [][LET flag == transport.subscribe_on_connect
           connect_response ==
               /\ connect_task.kind = "connect"
               /\ connect_task.status = "sent"
               /\ connect_task'.status = "done"
               /\ responded' /= <<>>
               /\ responded'[1].kind = "response"
           handshake_response ==
               /\ responded' /= <<>>
               /\ responded'[1].kind = "response"
               /\ \/ pc = "handshake" /\ pc' = "idle"
                  \/ /\ connect_task.kind = "handshake"
                     /\ connect_task.status = "sent"
                     /\ connect_task'.status = "done"
       IN  /\ connect_response
                => transport'.subscribe_on_connect = ~responded'[1].successful
           /\ (~flag /\ transport'.subscribe_on_connect)
                => \/ connect_response /\ ~responded'[1].successful
                   \/ handshake_response /\ responded'[1].successful
           /\ (flag /\ ~transport'.subscribe_on_connect)
                => connect_response /\ responded'[1].successful
           /\ (/\ connect_task.kind = "connect"
               /\ connect_task.status = "scheduled"
               /\ connect_task'.status = "sent")
                => ConnectWithSubscriptions(
                      finalized', IF flag THEN transport.subscriptions ELSE {})
           /\ (/\ connect_task.kind = "connect"
               /\ connect_task.follows = "rejected"
               /\ connect_task.status = "scheduled"
               /\ connect_task'.status = "sent")
                => ConnectWithSubscriptions(finalized', transport.subscriptions)]_vars

\* after a successful connect (flag cleared) the next connect is on its way
\* without a SUBSCRIBE message although a channel is subscribed
C27_Witness ==
    /\ connect_task.kind = "connect"
    /\ connect_task.follows = "connect"
    /\ connect_task.status = "sent"
    /\ ~transport.subscribe_on_connect
    /\ transport.subscriptions = {FOO}
    /\ Len(finalized) = 1
    /\ finalized[1].channel = CONNECT

\* the decimal numerals of the numbers below ten
DecimalString(n) == <<"0", "1", "2", "3", "4", "5", "6", "7", "8", "9">>[n + 1]

\* a payload without the ids of its messages
WithoutIds(payload) ==
    [i \in 1..Len(payload) |->
        [k \in DOMAIN payload[i] \ {"id"} |-> payload[i][k]]]

\* the places of a call in the list of the calls of a step
Places(log, entry) == {i \in 1..Len(log) : log[i] = entry}

\* C28: on a transport with an authentication extension, a first response
\* whose error field begins with the code 401 or 403 makes the call await
\* authenticate(), once, and then send the same whole payload once more; the
\* response to the second send is returned whatever its error field is, with
\* no further authenticate() and no further send; every other first response
\* is returned at once, and without an authentication extension no call ever
\* authenticates or sends its payload twice.
C28_AuthenticateOnceResendOnce ==
    [][\A r \in SendCallers :
        LET c == send_calls[r]
            d == send_calls'[r]
            answered == /\ c.pc = "sent"
                        /\ responded' /= <<>>
                        /\ responded'[1].kind = "response"
                        /\ responded'[1].caller = r
            code == get_error_code(responded'[1].error)
            auth_error == code = <<401>> \/ code = <<403>>
        IN  /\ (answered /\ c.sends = 1 /\ auth_extension /\ auth_error)
                 => /\ d.pc = "authenticating"
                    /\ d.authenticated = 1
                    /\ Cardinality(Places(hooks', <<"auth", "authenticate">>)) = 1
                    /\ d.sends = 1
            /\ (answered /\ ~(c.sends = 1 /\ auth_extension /\ auth_error))
                 => /\ d.pc = "returned"
                    /\ d.authenticated = c.authenticated
                    /\ d.sends = c.sends
                    /\ Places(hooks', <<"auth", "authenticate">>) = {}
            /\ (c.pc = "authenticating" /\ d /= c)
                 => /\ d.pc = "sent"
                    /\ d.sends = 2
                    /\ d.authenticated = 1
                    /\ WithoutIds(d.payload) = WithoutIds(c.payload)
                    /\ finalized' = d.payload
                    /\ Cardinality(Places(hooks', <<"network", "send">>)) = 1
            /\ d.sends <= 2
            /\ d.authenticated <= 1
            /\ d.sends = 2 => d.authenticated = 1
            /\ ~auth_extension => (d.sends <= 1 /\ d.authenticated = 0)]_vars

\* a second authentication error has been returned to the caller
C28_Witness ==
    \E r \in SendCallers :
        /\ send_calls[r].pc = "returned"
        /\ send_calls[r].sends = 2
        /\ send_calls[r].authenticated = 1
        /\ auth_extension
        /\ responded /= <<>>
        /\ responded[1].caller = r
        /\ responded[1].error = E403

\* C29: in every step that hands a payload to the network, the outgoing hooks
\* of the extensions have been called before, each once and in the order of
\* the list of extensions; in every step that consumes a received payload, the
\* incoming hook of every extension has been called once before the payload is
\* consumed, and the incoming hook of the authentication extension before all
\* of them.
C29_HookOrder ==
    [][LET n == Len(extension_list)
           at(entry) == CHOOSE i \in Places(hooks', entry) : TRUE
           out(i) == <<extension_list[i], "outgoing">>
           inc(i) == <<extension_list[i], "incoming">>
           send == <<"network", "send">>
           consume == <<"transport", "consume">>
       IN  /\ Places(hooks', send) /= {}
                => /\ \A i \in 1..n :
                         /\ Cardinality(Places(hooks', out(i))) = 1
                         /\ at(out(i)) < at(send)
                   /\ \A i, j \in 1..n : i < j => at(out(i)) < at(out(j))
           /\ Places(hooks', consume) /= {}
                => /\ \A i \in 1..n :
                         /\ Cardinality(Places(hooks', inc(i))) = 1
                         /\ at(inc(i)) < at(consume)
                   /\ auth_extension
                        => /\ Cardinality(Places(hooks', <<"auth", "incoming">>)) = 1
                           /\ \A i \in 1..n : at(<<"auth", "incoming">>) < at(inc(i))
                           /\ at(<<"auth", "incoming">>) < at(consume)
                   /\ ~auth_extension => Places(hooks', <<"auth", "incoming">>) = {}
           /\ (\E r \in SendCallers :
                  send_calls'[r].pc = "sent" /\ send_calls'[r] /= send_calls[r])
                => Places(hooks', send) /= {}
           /\ (responded' /= <<>> /\ responded'[1].kind = "response")
                => Places(hooks', consume) /= {}]_vars

\* a payload received on a transport with two extensions and an
\* authentication extension has been consumed
C29_Witness ==
    /\ extension_list = <<"b", "a">>
    /\ auth_extension
    /\ hooks = <<<<"auth", "incoming">>, <<"b", "incoming">>, <<"a", "incoming">>,
                 <<"transport", "consume">>>>

\* C30: the messages a transport finalises carry as id the decimal string of
\* its counter, which each message advances by one, so the ids are "0", "1",
\* "2", ... in the order of finalisation; the counter changes in no other way
\* except that a call of handshake() sets it to 0 before its message is
\* finalised, so that the message a handshake() call starts with carries the
\* id "0"; the resend of a payload finalises its messages again, with the
\* next ids.
C30_MessageIds ==
    [][LET starts == \E r \in SendCallers :
                        /\ send_calls[r].pc = "idle"
                        /\ send_calls'[r].pc = "sent"
                        /\ send_calls'[r].op = "handshake"
           start == IF starts THEN 0 ELSE send_message_id
       IN  /\ finalized' /= <<>>
                => /\ \A i \in 1..Len(finalized') :
                         finalized'[i].id = DecimalString(start + i - 1)
                   /\ send_message_id' = start + Len(finalized')
           /\ finalized' = <<>> => send_message_id' = send_message_id
           /\ starts => /\ Len(finalized') = 1
                        /\ finalized'[1].channel = HANDSHAKE
                        /\ finalized'[1].id = "0"
                        /\ send_message_id' = 1]_vars

\* a handshake() call has reset the counter past 1 while another call waits
C30_Witness ==
    \E r, q \in SendCallers :
        /\ send_calls[r].pc = "sent"
        /\ send_calls[r].op = "handshake"
        /\ send_calls[r].sends = 1
        /\ send_calls[r].payload[1].id = "0"
        /\ send_calls[q].pc = "sent"
        /\ send_calls[q].op = "connect"
        /\ send_calls[q].payload[2].id = "2"
        /\ send_message_id = 1

\* C30 as the specification words it: every HANDSHAKE message that is
\* finalised carries the id "0".
C30_HandshakeMessageCarriesZero ==
    [][\A i \in 1..Len(finalized') :
          finalized'[i].channel = HANDSHAKE => finalized'[i].id = "0"]_vars

\* C31: when _negotiate_transport has picked a type other than the provisional
\* transport's, the transport it returns has the picked type and the client
\* id, the reconnect advice, the session and the queue (with the events the
\* handshake has enqueued) that the provisional transport had after the
\* handshake; the session is not closed by the closing of the provisional
\* transport; and an open() creates one transport more than the provisional
\* one at most.  With the same type the provisional transport is returned.
C31_ReplacementCarriesOver ==
    [][/\ (pc = "open_handshake" /\ pc' = "open_connect")
            => IF picked' /= negotiating.connection_type
               THEN /\ transport'.connection_type = picked'
                    /\ transport'.client_id = negotiating'.client_id
                    /\ transport'.reconnect_advice = negotiating'.reconnect_advice
                    /\ negotiating.http_session /= 0
                    /\ transport'.http_session = negotiating.http_session
                    /\ transport'.http_session \notin closed_sessions'
                    /\ transport'.incoming_queue = negotiating.incoming_queue
                    /\ Len(incoming_queue') >= Len(incoming_queue)
                    /\ created' = 2
               ELSE /\ transport' = negotiating'
                    /\ closed_sessions' = closed_sessions
                    /\ created' = 1
       /\ created' <= 2]_vars

\* the second open() has replaced its provisional transport by a websocket
\* transport, after a handshake that came with advice and an event
C31_Witness ==
    /\ pc = "open_connect"
    /\ created = 2
    /\ negotiating.connection_type = LONG_POLLING
    /\ negotiating.http_session = 0
    /\ transport = NegTransport(WEBSOCKET, 2, "c1", "retry", 2)
    /\ closed_sessions = {1}
    /\ incoming_queue = <<"event">>

\* C32: the set of subscriptions differs from what it was before a message
\* only if the message is on /meta/subscribe or /meta/unsubscribe; a failed
\* subscribe response that names a channel of the set leaves the set without
\* that channel; an event, a connect response, a failed unsubscribe response
\* and a failed subscribe response that names no channel of the set leave the
\* set as it was.
C32_SubscriptionsChangeOnlyOnResponses ==
    last_message /= <<>> =>
        LET m == last_message[1] IN
            /\ subscriptions /= subs_before => m.channel \in {SUBSCRIBE, UNSUBSCRIBE}
            /\ (m.channel = SUBSCRIBE /\ ~m.successful /\ Has(m, "subscription")
                    /\ m.subscription \in subs_before)
                  => subscriptions = subs_before \ {m.subscription}
            /\ (m.channel = SUBSCRIBE /\ ~m.successful
                    /\ (Has(m, "subscription") => m.subscription \notin subs_before))
                  => subscriptions = subs_before
            /\ (m.channel = UNSUBSCRIBE /\ ~m.successful) => subscriptions = subs_before
            /\ m.channel = CONNECT => subscriptions = subs_before
            /\ Has(m, "data") => subscriptions = subs_before

\* the server has refused the subscription of "/foo", which was in the set
C32_Witness ==
    /\ last_message /= <<>>
    /\ last_message[1].channel = SUBSCRIBE
    /\ ~last_message[1].successful
    /\ Has(last_message[1], "subscription")
    /\ last_message[1].subscription = FOO
    /\ subs_before = {FOO, BAR}
    /\ subscriptions = {BAR}

\* C33: the message a request is completed with, on either transport, has
\* the channel and the id of the request and carries a successful field.
C33_CompletedOnlyByMatchingResponse ==
    \A r \in DOMAIN call :
        call[r].outcome /= <<>> =>
            /\ call[r].outcome[1].channel = call[r].message[1].channel
            /\ call[r].outcome[1].id = call[r].message[1].id
            /\ Has(call[r].outcome[1], "successful")

\* C33 on the long-polling transport alone
C33_LongPollingCompletedOnlyByMatchingResponse ==
    ttype = LONG_POLLING => C33_CompletedOnlyByMatchingResponse

C35_NoTaskAfterDisconnect ==
    [][/\ (pc /= "idle" /\ pc' = "idle" /\ ret'.op = "disconnect")
            => /\ ~LoopPending(connect_task')
               /\ transport'.state = DISCONNECTED
       /\ (/\ transport.state = DISCONNECTED
           /\ ~LoopPending(connect_task)
           /\ ~(pc = "idle" /\ pc' = "connect"))
            => /\ transport'.state = DISCONNECTED
               /\ ~LoopPending(connect_task')]_vars

\* C36: a reply (a message with a successful field on the channel of a
\* request) that has been handed to a caller as the result of its request is
\* neither in the incoming queue nor among the messages receive() has
\* returned, even if it is on a broadcast channel and carries an id and data.
C36_ReplyNeverEnqueued ==
    \A m \in emitted :
        (m.n \in correlated /\ Has(m, "successful") /\ m.channel /= SVC)
            => Occurrences(Delivered, m) = 0

\* C36 on the long-polling transport alone
C36_LongPollingReplyNeverEnqueued ==
    ttype = LONG_POLLING => C36_ReplyNeverEnqueued

\* C37: on the websocket transport no step replaces the caller that
\* _pending_exhanges holds under an id by another caller, and the requests
\* whose futures are unresolved have pairwise distinct ids.
C37_PendingExchangesNeverReplaced ==
    [][/\ \A id \in DOMAIN pending_exhanges \cap DOMAIN pending_exhanges' :
             pending_exhanges'[id] = pending_exhanges[id]
       /\ \A r, q \in DOMAIN call' :
             (r /= q /\ call'[r].pc = "awaiting" /\ call'[q].pc = "awaiting"
                /\ call'[r].future = "pending" /\ call'[q].future = "pending")
               => call'[r].message[1].id /= call'[q].message[1].id]_vars

\* the payload a suspended consumer is in the middle of
SuspendedPayload(c) == IF c = 0 THEN rx.payload ELSE call[c].payload

\* the event messages of payload number p that the server has sent
EventsOfPayload(p) == {m \in emitted : m.p = p /\ is_event_message(m)}

\* C38: a reply is handed to its caller only when every event message of its
\* payload has been placed on the incoming queue; while a consumer is
\* suspended on the full queue no reply of its payload (and, on websocket, of
\* no later payload) has been handed over; a suspended consumer can go on as
\* soon as the queue has room, and the step in which it reaches the end of
\* its payload hands the replies over (of two replies to one request in a
\* payload, the first).
C38_ReplyAfterEvents ==
    /\ [](\A m \in emitted :
            m.n \in correlated
                => EventsOfPayload(m.p) \subseteq
                       (Range(incoming_queue) \cup Range(received)))
    /\ [](\A c \in Suspended :
            /\ QueueFull(incoming_queue, max_pending_count)
                   \/ ENABLED (IF c = 0 THEN WsResume ELSE LpConsume(c))
            /\ \A m \in emitted :
                   (m.p = SuspendedPayload(c)[1].p \/ (c = 0 /\ m.p > rx.payload[1].p))
                       => m.n \notin correlated)
    /\ [][/\ (rx.blocked /\ rx'.payload = <<>>)
                => \A i \in DOMAIN rx.payload :
                      (/\ Has(rx.payload[i], "id")
                       /\ rx.payload[i].id \in DOMAIN pending_exhanges
                       /\ call[pending_exhanges[rx.payload[i].id]].future = "pending"
                       /\ \A j \in 1..(i - 1) :
                              Get(rx.payload[j], "id") /= rx.payload[i].id)
                          => rx.payload[i].n \in correlated'
          /\ \A r \in DOMAIN call :
                (/\ call[r].blocked
                 /\ call'[r].pc /= "consume"
                 /\ \E i \in DOMAIN call[r].payload :
                       is_matching_response(call[r].payload[i], call[r].message))
                    => /\ call'[r].pc = "returned"
                       /\ call'[r].outcome[1].n \in correlated']_vars

\* the queue is full and the receive task is suspended in a payload that holds
\* the reply to a request whose caller is still waiting
C38_Witness ==
    /\ rx.blocked
    /\ QueueFull(incoming_queue, max_pending_count)
    /\ \E i \in DOMAIN rx.payload :
          /\ Has(rx.payload[i], "id")
          /\ rx.payload[i].id \in DOMAIN pending_exhanges
          /\ call[pending_exhanges[rx.payload[i].id]].future = "pending"

\* C39: open() has raised after the handshake had succeeded, and the caller
\* calls close(): when close() has returned, no connect task of the transport
\* is running or scheduled and the transport is DISCONNECTED.
C39_FailedOpenThenCloseStopsTask ==
    [][(/\ ret.op = "open"
        /\ ret.raised \notin {"none", "ClientInvalidOperation"}
        /\ first.handshake = "ok"
        /\ ret'.op = "close")
          => /\ connect_task'.status \notin {"scheduled", "sent", "done"}
             /\ transport'.state = DISCONNECTED]_vars

\* C40: a receive() that is suspended on an empty queue when another task
\* has closed the client eventually completes.
C40_SuspendedReceiveEnds ==
    (recv_pc = "waiting" /\ incoming_queue = <<>> /\ get_task = <<>> /\ closed)
        ~> (recv_pc = "idle")

====
